---- MODULE Spec2Model ----
(***************************************************************************)
(* Verification model of the sdlc_metrics reporting jobs: the backoff     *)
(* executor (scripts/utilities.py), the paginated fetchers of the Jira,   *)
(* Zoom and Semaphore CI jobs, the cycle-time calculator and the Google   *)
(* Sheets sinks.  Each component has its own specification (SpecBackoff,  *)
(* SpecOffset, ...) over the variables it uses; the variables of the      *)
(* other components are pinned by that specification's Init.              *)
(***************************************************************************)
EXTENDS Integers, Sequences, FiniteSets, TLC

VARIABLES
    \* ---- backoff (utilities.py) ----
    bo_pc,          \* "idle" | "running" | "returned" | "returned_none" | "raised"
    bo_fn,          \* the function handed to backoff
    max_retries,    \* parameter max_retries
    sleep_time,     \* parameter sleep_time
    exceptions,     \* parameter exceptions: the exception class that is caught
    retry_count,    \* loop variable of `for retry_count in range(max_retries)`
    bo_value,       \* value returned by the function on the successful attempt
    bo_error,       \* failure kind that left backoff ("none" while there is none)
    invocations,    \* number of times the function has been invoked in this call
    caught,         \* number of invocations that failed with a caught failure
    sleep_count,    \* number of time.sleep calls in this call of backoff
    last_sleep,     \* [base, jitter] of the latest time.sleep
    last_failure,   \* failure kind of the latest failed invocation
    \* ---- offset-scheme fetchers (get_issues, get_issue_count) ----
    job,            \* "jira_ic" | "jira_cycle_time" | "eng_metrics": whose fetcher runs
    credentials_set,\* ATLASSIAN_API_TOKEN and ATLASSIAN_EMAIL (and _URL) are in the environment
    db,             \* the records matching the query, in the server's order
    max_results,    \* parameter max_results: the page size
    gi_pc,          \* position in the fetcher
    start_at,       \* local start_at
    all_issues,     \* local all_issues
    count,          \* local count (get_issue_count)
    page,           \* issues["issues"] of the page being processed (jira_cycle_time)
    detail_idx,     \* position of `for issue in issues["issues"]` (jira_cycle_time)
    gi_result,      \* what the fetcher returned
    gi_error,       \* failure kind that left the fetcher ("none" while there is none)
    page_sizes,     \* sizes of the pages received so far, in request order
    offsets,        \* startAt of every page request issued so far
    failure_seen,   \* a request of this fetch has failed for good (raised out of its call)
    \* ---- token-scheme fetcher (zoom_to_gsheet.py) ----
    meeting_chain,      \* the server's pages of /metrics/meetings
    participant_chain,  \* the server's pages of /past_meetings/{id}/participants
    zm_pc,              \* position in get_zoom_meeting_data / process_meeting
    params_token,       \* params["next_page_token"] ("absent": no such key)
    participants_token, \* params_participants["next_page_token"]
    meetings_data,      \* the page of meetings being processed
    meeting_idx,        \* position of `for meeting in meetings_data["meetings"]`
    all_participants,   \* local all_participants of process_meeting
    meeting_processed,  \* local meeting_processed
    result,             \* the meetings whose participants were processed, with them
    m_sent,             \* token sent with every meetings request so far
    m_received,         \* next_page_token of every meetings page received so far
    p_sent,             \* the same for the participants requests of the current meeting
    p_received,
    \* ---- cursor-scheme fetcher (semaphoreci_to_gsheet.py) ----
    pipeline_chain, \* the server's pages of /pipelines, each with its link header
    gp_pc,          \* "loop" | "done" | "returned_none" | "failed"
    pipelines_url,  \* local pipelines_url (the page it addresses)
    pipelines,      \* local pipelines
    gp_error,       \* failure kind that left get_pipelines ("none" while there is none)
    gp_log,         \* every response received so far: [url, status, retry_after, records]
    pauses,         \* duration of every time.sleep of handle_rate_limiting so far
    \* ---- get_cycle_time (jira_cycle_time_to_gsheet.py) ----
    issue,          \* argument issue: created, resolutiondate (resolved = FALSE: None)
    start_stage,    \* argument start_stage
    end_stage,      \* argument end_stage
    ct_pc,          \* "called" | "loop" | "returned" | "failed"
    start_time,     \* local start_time, in seconds since the epoch of Strptime
    end_time,       \* local end_time
    history,        \* the records of changelog.histories the loop has gone through
    cycle_time,     \* the returned number of days, a fraction in lowest terms
    ct_error,       \* failure kind that left get_cycle_time ("none" while there is none)
    changelog,      \* the records that changelog.histories of an issue can hold
    \* ---- calculate_cycle_time and main (jira_cycle_time_to_gsheet.py) ----
    cc_pc,          \* calculate_cycle_time: "idle" | "loop" | "issue" | "returned" | "failed"
    cycle_times,    \* local cycle_times, built issue by issue
    average,        \* the value calculate_cycle_time returns, a fraction in lowest terms
    cc_error,       \* failure kind that left calculate_cycle_time
    mn_pc,          \* main: "idle" | "config" | "calculating" | "updating" | "done" | "crashed"
    mn_months,      \* len(args.months)
    mn_month,       \* position in args.months of the month of this round
    mn_updates,     \* the months for which update_google_sheets has been called
    config_idx,     \* position in SYNC_CONFIG of the config of this round
    mn_data,        \* local data of main: the row names appended so far
    mn_error,       \* failure kind that ended main ("none" while there is none)
    \* ---- update_google_sheets (jira_cycle_time, github, jira_ic) ----
    sheet,          \* the worksheet in the store: rows of cells, each cell a text
    sh_job,         \* the script whose update_google_sheets runs
    sh_pc,          \* per writer: the store call it is about to make
    sh_month,       \* per writer: argument month_converted
    headers,        \* per writer: local headers
    column,         \* per writer: local column
    data,           \* per writer: local data
    sh_rows,        \* per writer: rows of the dataframe gone through in this call
    sh_inserted,    \* per writer: this call has inserted a column
    sh_calls,       \* calls of update_google_sheets so far
    upserts,        \* the last two rounds of the row loop, with the sheet before and after
    header_reads,   \* per writer: row_values(1) requests sent in this run
    user_row_index, \* per writer: local user_row_index of update_google_sheet (zoom)
    \* ---- fetch_and_update_metrics (eng_metrics_to_gsheet.py) ----
    worksheet,      \* the "Data" worksheet in the store
    em_pc,          \* "idle" | "range" | "month" | "metric" | "done" | "failed"
    em_month,       \* the element of months of this run, "YYYY-MM"
    all_months,     \* local all_months
    month_column,   \* local month_column
    em_metric,      \* position in METRICS_QUERIES of the metric written next
    em_runs,        \* the months of the runs that have ended, in order
    \* ---- update_pto_sheet (pto_to_gsheet.py) ----
    pto_sheet,          \* the "PTO" worksheet in the store
    pto_pc,             \* "idle" | "get_all_values" | "insert_cols" | "update_cell" |
                        \* "dataframe" | "engineers" | "done" | "failed"
    month_str,          \* local month_str, "Month YYYY"
    out_of_office_days, \* parameter out_of_office_days, its items in order
    pto_data,           \* local data
    pto_headers,        \* local headers
    pto_idx,            \* position in out_of_office_days of the engineer written next
    pto_error,          \* the failure that left update_pto_sheet
    pto_runs,           \* calls of update_pto_sheet so far
    pto_round,          \* the last round of the loop over the engineers, with the sheet
                        \* before and after
    \* ---- fetch_github_data (github_to_gsheet.py) ----
    issues,             \* the pull requests the search found, in order
    gh_pc,              \* "idle" | "try" | "done" | "failed"
    gh_idx,             \* position in issues of the pull request of this round
    merges,             \* local merges: full name -> count
    reviews,            \* local reviews: full name -> count
    changes,            \* local changes: full name -> count
    gh_failures,        \* the 403 failures caught so far
    gh_sleeps           \* the time.sleep calls of the rate-limit handler so far

boVars == <<bo_pc, bo_fn, max_retries, sleep_time, exceptions, retry_count, bo_value,
            bo_error, invocations, caught, sleep_count, last_sleep, last_failure>>

giVars == <<job, credentials_set, db, max_results, gi_pc, start_at, all_issues, count, page,
            detail_idx, gi_result, gi_error, page_sizes, offsets, failure_seen>>

zmVars == <<meeting_chain, participant_chain, zm_pc, params_token, participants_token,
            meetings_data, meeting_idx, all_participants, meeting_processed, result,
            m_sent, m_received, p_sent, p_received>>

gpVars == <<pipeline_chain, gp_pc, pipelines_url, pipelines, gp_error, gp_log, pauses>>

ctVars == <<issue, start_stage, end_stage, ct_pc, start_time, end_time, history,
            cycle_time, ct_error, changelog>>

ccVars == <<cc_pc, cycle_times, average, cc_error, mn_pc, mn_months, mn_month, mn_updates,
            config_idx, mn_data, mn_error>>

shVars == <<sheet, sh_job, sh_pc, sh_month, headers, column, data, sh_rows, sh_inserted,
            sh_calls, upserts, header_reads, user_row_index>>

emVars == <<worksheet, em_pc, em_month, all_months, month_column, em_metric, em_runs>>

ptVars == <<pto_sheet, pto_pc, month_str, out_of_office_days, pto_data, pto_headers, pto_idx,
            pto_error, pto_runs, pto_round>>

ghVars == <<issues, gh_pc, gh_idx, merges, reviews, changes, gh_failures, gh_sleeps>>

\* the variables of the computations that fetch nothing
restVars == <<ctVars, shVars, emVars, ccVars, ptVars, ghVars>>

vars == <<boVars, giVars, zmVars, gpVars, restVars>>

\* the variables outside backoff
callerVars == <<giVars, zmVars, gpVars, restVars>>

\* the variables of backoff and of the fetchers
fetchVars == <<boVars, giVars, zmVars, gpVars, ghVars>>

\* the variables outside fetch_github_data
notGhVars == <<boVars, giVars, zmVars, gpVars, ctVars, shVars, emVars, ccVars, ptVars>>

zmVarsButPc == <<meeting_chain, participant_chain, params_token, participants_token,
                 meetings_data, meeting_idx, all_participants, meeting_processed, result,
                 m_sent, m_received, p_sent, p_received>>

\* sum of a sequence of numbers
RECURSIVE SumSeq(_)
SumSeq(q) == IF q = <<>> THEN 0 ELSE Head(q) + SumSeq(Tail(q))

(***************************************************************************)
(* Bounds of the model.                                                    *)
(***************************************************************************)
MaxRetriesBound == 4   \* largest max_retries the backoff specification tries (three sleeps)
MaxSleepTime == 2      \* largest sleep_time the backoff specification tries
JitterSteps == 2       \* random.uniform(0, 1) is drawn as j / JitterSteps, j < JitterSteps
MaxTotal == 7          \* largest number of records matching a query
MaxPageSize == 2       \* largest max_results the fetcher specifications try
MaxTokenPages == 3     \* largest number of pages behind a Zoom endpoint
MaxCursorPages == 3    \* largest number of pages behind the pipelines endpoint
MaxRateLimits == 2     \* largest number of 429 responses in one run of get_pipelines
MaxRetryAfter == 2     \* largest Retry-After value (seconds) the server sends
MaxProjectCalls == 3   \* largest number of answered calls of get_projects
MaxPulls == 2          \* largest number of pull requests the search finds
MaxHistory == 3        \* largest number of changelog records of an issue
MaxCalls == 2          \* largest number of calls of update_google_sheets
MaxBatch == 2          \* largest number of rows of a dataframe
MaxRuns == 2           \* largest number of runs of fetch_and_update_metrics
MaxIssues == 2         \* largest number of issues a query of main returns
MaxMonths == 2         \* largest number of months given to main
MaxEngineers == 2      \* largest number of items of out_of_office_days
MaxPtoRuns == 2        \* largest number of calls of update_pto_sheet

DefaultMaxRetries == 15   \* max_retries=15
DefaultSleepTime == 1     \* sleep_time=1

(***************************************************************************)
(* Failure kinds and the classes an `except` clause matches them by.       *)
(***************************************************************************)
\* requests.exceptions.JSONDecodeError derives from RequestException and from
\* ValueError; a plain ValueError is what older json decoding raises.
Ancestors(kind) ==
    CASE kind = "ConnectionError" -> {"ConnectionError", "RequestException", "Exception", "BaseException"}
      [] kind = "HTTPError" -> {"HTTPError", "RequestException", "Exception", "BaseException"}
      [] kind = "HTTPError429" -> {"HTTPError", "RequestException", "Exception", "BaseException"}
      [] kind = "JSONDecodeError" -> {"JSONDecodeError", "RequestException", "ValueError", "Exception", "BaseException"}
      [] kind = "ValueError" -> {"ValueError", "Exception", "BaseException"}
      [] kind = "KeyError" -> {"KeyError", "Exception", "BaseException"}
      [] kind = "APIError" -> {"APIError", "Exception", "BaseException"}
      [] kind = "KeyboardInterrupt" -> {"KeyboardInterrupt", "BaseException"}
      [] OTHER -> {"BaseException"}

\* mutant: a bare `except` that catches every failure kind
MatchesAnything(kind, class) == TRUE

\* `except exceptions as error` catches the failure
Matches(kind, class) == class \in Ancestors(kind)

RECURSIVE Pow2(_)
Pow2(n) == IF n <= 0 THEN 1 ELSE 2 * Pow2(n - 1)

\* mutant: the same delay before every retry
BackoffTimeConstant(rc, st, j) == [base |-> st, jitter |-> j]

\* backoff_time = ((2**retry_count) * sleep_time) + random.uniform(0, 1)
BackoffTime(rc, st, j) == [base |-> Pow2(rc) * st, jitter |-> j]

NoSleep == [base |-> 0, jitter |-> 0]

(***************************************************************************)
(* What one invocation of the function handed to backoff can do.           *)
(***************************************************************************)
Ok(v) == [ok |-> TRUE, kind |-> "none", value |-> v]
Fail(kind, v) == [ok |-> FALSE, kind |-> kind, value |-> v]

\* an arbitrary fallible operation: returns a value that names the attempt, or fails
FunctionOutcomes ==
    {Ok(invocations + 1)}
    \cup {Fail(k, 0) : k \in {"ConnectionError", "ValueError", "KeyboardInterrupt"}}

Min(a, b) == IF a <= b THEN a ELSE b

\* the Jira search endpoint: the records from startAt on, at most maxResults of them
SearchPage(records, startAt, maxResults) ==
    SubSeq(records, startAt + 1, Min(startAt + maxResults, Len(records)))

\* call_jira_api: requests.get can fail to connect, raise_for_status raises HTTPError on
\* an error status, response.json() fails on a body that is no JSON (a
\* requests JSONDecodeError, or a plain ValueError with an older requests).  "HTTPError429"
\* is the HTTPError that raise_for_status raises on status 429.
CallJiraApiFailures ==
    {"ConnectionError", "HTTPError", "HTTPError429", "JSONDecodeError", "ValueError"}

CallJiraApiOutcomes(body) == {Ok(body)} \cup {Fail(k, <<>>) : k \in CallJiraApiFailures}

\* the body call_jira_api is asked for at this point of the fetcher
RequestedBody ==
    IF gi_pc = "detail_wait" THEN <<page[detail_idx]>>
    ELSE SearchPage(db, start_at, max_results)

\* the continuation tokens the Zoom server hands out, page by page
TokenNames == <<"a", "b", "c", "d", "e">>

\* a response body that is no page (an error body: none of the expected keys)
NoPage == [has_records |-> FALSE, records |-> <<>>, next_page_token |-> "absent"]

\* the page the server answers a request carrying `token` with; NoPage for a token it
\* never handed out
ChainPage(chain, token) ==
    IF token = "absent" THEN chain[1]
    ELSE IF \E i \in 1..(Len(chain) - 1) : chain[i].next_page_token = token
         THEN chain[(CHOOSE i \in 1..(Len(chain) - 1) : chain[i].next_page_token = token) + 1]
         ELSE NoPage

Response(status, body) == [status |-> status, body |-> body]

\* requests.get on a Zoom endpoint: a connection failure, an error status with an error
\* body, or 200 with the page the token stands for
ZoomGetOutcomes(chain, token) ==
    {Fail("ConnectionError", Response(0, NoPage)), Ok(Response(500, NoPage))}
    \cup (IF ChainPage(chain, token).has_records
          THEN {Ok(Response(200, ChainPage(chain, token)))}
          ELSE {Ok(Response(400, NoPage))})

\* the request make_request is sending at this point of the Zoom job
ZoomRequestOutcomes ==
    CASE zm_pc = "meetings_wait" -> ZoomGetOutcomes(meeting_chain, params_token)
      [] zm_pc = "participants_wait" -> ZoomGetOutcomes(participant_chain, participants_token)
      [] OTHER -> {Fail("ConnectionError", Response(0, NoPage)), Ok(Response(500, NoPage)),
                   Ok(Response(200, NoPage))}

\* sheet.row_values(row): the cells of the row up to the last one that is not empty
get_row_values(ws, row) ==
    LET filled == {i \in 1..Len(ws[row]) : ws[row][i] # ""}
    IN  SubSeq(ws[row], 1, IF filled = {} THEN 0 ELSE CHOOSE i \in filled : \A j \in filled : j <= i)

\* list.index(x), counted from 0
ListIndex(list, x) ==
    (CHOOSE i \in 1..Len(list) : list[i] = x /\ \A j \in 1..(i - 1) : list[j] # x) - 1

\* get_month_index(worksheet, month_converted): worksheet.row_values(1) raises APIError
\* when the store refuses the request, list.index raises ValueError without the label
GetMonthIndexOutcomes ==
    LET row == get_row_values(sheet, 1)
    IN  {Fail("APIError", 0)}
        \cup (IF \E i \in 1..Len(row) : row[i] = sh_month[1]
              THEN {Ok(ListIndex(row, sh_month[1]) + 1)}
              ELSE {Fail("ValueError", 0)})

Outcomes ==
    CASE bo_fn = "function" -> FunctionOutcomes
      [] bo_fn = "call_jira_api" -> CallJiraApiOutcomes(RequestedBody)
      [] bo_fn = "requests_get" -> ZoomRequestOutcomes
      [] bo_fn = "get_month_index" -> GetMonthIndexOutcomes
      [] OTHER -> {}

(***************************************************************************)
(* backoff: one action per iteration of the retry loop.                    *)
(***************************************************************************)
\* return function(*args, **kwargs)
BackoffReturn ==
    /\ bo_pc = "running"
    /\ UNCHANGED callerVars
    /\ retry_count < max_retries
    /\ \E o \in Outcomes :
        /\ o.ok
        /\ bo_value' = o.value
    /\ bo_pc' = "returned"
    /\ invocations' = invocations + 1
    /\ UNCHANGED <<bo_fn, max_retries, sleep_time, exceptions, retry_count, bo_error,
                   caught, sleep_count, last_sleep, last_failure>>

\* mutant: the budget test off by one (`retry_count >= max_retries`)
GivesUpLate(rc, mr) == rc >= mr

\* the last attempt of the budget: `if retry_count >= max_retries - 1: raise`
GivesUp(rc, mr) == rc >= mr - 1

\* mutant: the retry goes round the loop without time.sleep
BackoffRetryNoSleep ==
    /\ bo_pc = "running"
    /\ UNCHANGED callerVars
    /\ retry_count < max_retries
    /\ \E o \in Outcomes :
        /\ ~o.ok
        /\ Matches(o.kind, exceptions)
        /\ ~GivesUp(retry_count, max_retries)
        /\ last_failure' = o.kind
    /\ retry_count' = retry_count + 1
    /\ invocations' = invocations + 1
    /\ caught' = caught + 1
    /\ UNCHANGED <<bo_pc, bo_fn, max_retries, sleep_time, exceptions, bo_value, bo_error,
                   sleep_count, last_sleep>>

\* except exceptions: not the last attempt, sleep and go round the loop
BackoffRetry ==
    /\ bo_pc = "running"
    /\ UNCHANGED callerVars
    /\ retry_count < max_retries
    /\ \E o \in Outcomes, j \in 0..(JitterSteps - 1) :
        /\ ~o.ok
        /\ Matches(o.kind, exceptions)
        /\ ~GivesUp(retry_count, max_retries)
        /\ last_failure' = o.kind
        /\ last_sleep' = BackoffTime(retry_count, sleep_time, j)
    /\ sleep_count' = sleep_count + 1
    /\ retry_count' = retry_count + 1
    /\ invocations' = invocations + 1
    /\ caught' = caught + 1
    /\ UNCHANGED <<bo_pc, bo_fn, max_retries, sleep_time, exceptions, bo_value, bo_error>>

\* mutant: the last attempt raises the failure of the attempt before it
BackoffRaisePrevious ==
    /\ bo_pc = "running"
    /\ UNCHANGED callerVars
    /\ retry_count < max_retries
    /\ \E o \in Outcomes :
        /\ ~o.ok
        /\ Matches(o.kind, exceptions)
        /\ GivesUp(retry_count, max_retries)
        /\ last_failure' = o.kind
        /\ bo_error' = last_failure
    /\ bo_pc' = "raised"
    /\ invocations' = invocations + 1
    /\ caught' = caught + 1
    /\ UNCHANGED <<bo_fn, max_retries, sleep_time, exceptions, retry_count, bo_value,
                   sleep_count, last_sleep>>

\* except exceptions: the last attempt re-raises the failure it caught
BackoffRaiseLast ==
    /\ bo_pc = "running"
    /\ UNCHANGED callerVars
    /\ retry_count < max_retries
    /\ \E o \in Outcomes :
        /\ ~o.ok
        /\ Matches(o.kind, exceptions)
        /\ GivesUp(retry_count, max_retries)
        /\ last_failure' = o.kind
        /\ bo_error' = o.kind
    /\ bo_pc' = "raised"
    /\ invocations' = invocations + 1
    /\ caught' = caught + 1
    /\ UNCHANGED <<bo_fn, max_retries, sleep_time, exceptions, retry_count, bo_value,
                   sleep_count, last_sleep>>

\* a failure the except clause does not match leaves backoff at once
BackoffPropagate ==
    /\ bo_pc = "running"
    /\ UNCHANGED callerVars
    /\ retry_count < max_retries
    /\ \E o \in Outcomes :
        /\ ~o.ok
        /\ ~Matches(o.kind, exceptions)
        /\ last_failure' = o.kind
        /\ bo_error' = o.kind
    /\ bo_pc' = "raised"
    /\ invocations' = invocations + 1
    /\ UNCHANGED <<bo_fn, max_retries, sleep_time, exceptions, retry_count, bo_value,
                   caught, sleep_count, last_sleep>>

\* mutant: an empty range(max_retries) is reported as a failure
BackoffFallThroughRaises ==
    /\ bo_pc = "running"
    /\ UNCHANGED callerVars
    /\ retry_count >= max_retries
    /\ bo_pc' = "raised"
    /\ bo_error' = "ValueError"
    /\ UNCHANGED <<bo_fn, max_retries, sleep_time, exceptions, retry_count, bo_value,
                   invocations, caught, sleep_count, last_sleep, last_failure>>

\* range(max_retries) is empty or used up: the function body ends, returning None
BackoffFallThrough ==
    /\ bo_pc = "running"
    /\ UNCHANGED callerVars
    /\ retry_count >= max_retries
    /\ bo_pc' = "returned_none"
    /\ UNCHANGED <<bo_fn, max_retries, sleep_time, exceptions, retry_count, bo_value,
                   bo_error, invocations, caught, sleep_count, last_sleep, last_failure>>

\* entry of backoff(function, args, kwargs, sleep_time, max_retries, exceptions)
BackoffEnter(fn, st, mr, exc) ==
    /\ bo_pc' = "running"
    /\ bo_fn' = fn
    /\ sleep_time' = st
    /\ max_retries' = mr
    /\ exceptions' = exc
    /\ retry_count' = 0
    /\ bo_error' = "none"
    /\ invocations' = 0
    /\ caught' = 0
    /\ sleep_count' = 0
    /\ last_sleep' = NoSleep
    /\ last_failure' = "none"
    /\ bo_value' = 0

BackoffIdle ==
    /\ bo_pc = "idle"
    /\ bo_fn = "none"
    /\ max_retries = 0
    /\ sleep_time = 0
    /\ exceptions = "Exception"
    /\ retry_count = 0
    /\ bo_value = 0
    /\ bo_error = "none"
    /\ invocations = 0
    /\ caught = 0
    /\ sleep_count = 0
    /\ last_sleep = NoSleep
    /\ last_failure = "none"

\* the caller takes what backoff returned or raised; the call's locals are gone
BackoffLeave ==
    /\ bo_pc' = "idle"
    /\ bo_fn' = "none"
    /\ max_retries' = 0
    /\ sleep_time' = 0
    /\ exceptions' = "Exception"
    /\ retry_count' = 0
    /\ bo_value' = 0
    /\ bo_error' = "none"
    /\ invocations' = 0
    /\ caught' = 0
    /\ sleep_count' = 0
    /\ last_sleep' = NoSleep
    /\ last_failure' = "none"

(***************************************************************************)
(* Offset-scheme fetchers: get_issues of jira_ic_to_gsheet.py and          *)
(* jira_cycle_time_to_gsheet.py, get_issue_count of eng_metrics_to_gsheet. *)
(***************************************************************************)
\* the matching records: distinct keys, or keys that repeat
Dataset(total, distinct) == [i \in 1..total |-> IF distinct THEN i ELSE ((i - 1) % 2) + 1]

Datasets == {Dataset(n, d) : n \in 0..MaxTotal, d \in BOOLEAN}

GetIssuesJobs == {"jira_ic", "jira_cycle_time"}

\* if api_token is None or api_email is None: return []
GetIssuesNoCredentials ==
    /\ gi_pc = "start"
    /\ job \in GetIssuesJobs
    /\ ~credentials_set
    /\ gi_result' = <<>>
    /\ gi_pc' = "done"
    /\ UNCHANGED <<zmVars, gpVars, restVars>>
    /\ UNCHANGED <<job, credentials_set, db, max_results, start_at, all_issues, count, page,
                   detail_idx, gi_error, page_sizes, offsets, failure_seen>>
    /\ UNCHANGED boVars

\* if api_token is None or api_email is None or api_url is None: return 0
GetIssueCountNoCredentials ==
    /\ gi_pc = "start"
    /\ job = "eng_metrics"
    /\ ~credentials_set
    /\ count' = 0
    /\ gi_pc' = "done"
    /\ UNCHANGED <<zmVars, gpVars, restVars>>
    /\ UNCHANGED <<job, credentials_set, db, max_results, start_at, all_issues, page,
                   detail_idx, gi_result, gi_error, page_sizes, offsets, failure_seen>>
    /\ UNCHANGED boVars

\* start_at = 0; all_issues = [] (count = 0); while True:
GetIssuesBegin ==
    /\ gi_pc = "start"
    /\ credentials_set
    /\ start_at' = 0
    /\ all_issues' = <<>>
    /\ count' = 0
    /\ gi_pc' = "loop"
    /\ UNCHANGED <<zmVars, gpVars, restVars>>
    /\ UNCHANGED <<job, credentials_set, db, max_results, page, detail_idx, gi_result,
                   gi_error, page_sizes, offsets, failure_seen>>
    /\ UNCHANGED boVars

\* issues = backoff(call_jira_api, args=(jira_url, auth), exceptions=RequestException)
GetIssuesRequest ==
    /\ gi_pc = "loop"
    /\ job \in GetIssuesJobs
    /\ bo_pc = "idle"
    /\ BackoffEnter("call_jira_api", DefaultSleepTime, DefaultMaxRetries, "RequestException")
    /\ gi_pc' = "page_wait"
    /\ offsets' = Append(offsets, start_at)
    /\ UNCHANGED <<zmVars, gpVars, restVars>>
    /\ UNCHANGED <<job, credentials_set, db, max_results, start_at, all_issues, count, page,
                   detail_idx, gi_result, gi_error, page_sizes, failure_seen>>

\* mutant: the loop ends on a full page as well
LastPageAtMost(size, maxResults) == size <= maxResults

\* mutant: the loop ends on an empty page only
LastPageWhenEmpty(size, maxResults) == size = 0

\* if len(issue_details["issues"]) < max_results: break
LastPage(size, maxResults) == size < maxResults

\* mutant: the offset advances by one record less than the page size
NextStartAtOverlapping(startAt, maxResults) == startAt + maxResults - 1

\* start_at += max_results
NextStartAt(startAt, maxResults) == startAt + maxResults

\* mutant: the page is put in front of the accumulated records
ExtendInFront(acc, records) == records \o acc

\* all_issues.extend(issue_details["issues"])
Extend(acc, records) == acc \o records

\* jira_ic: all_issues.extend(...); break on a short page, else advance start_at
GetIssuesPage ==
    /\ gi_pc = "page_wait"
    /\ job = "jira_ic"
    /\ bo_pc = "returned"
    /\ all_issues' = Extend(all_issues, bo_value)
    /\ page_sizes' = Append(page_sizes, Len(bo_value))
    /\ IF LastPage(Len(bo_value), max_results)
       THEN /\ gi_pc' = "done"
            /\ gi_result' = all_issues'
            /\ UNCHANGED start_at
       ELSE /\ gi_pc' = "loop"
            /\ start_at' = NextStartAt(start_at, max_results)
            /\ UNCHANGED gi_result
    /\ BackoffLeave
    /\ UNCHANGED <<zmVars, gpVars, restVars>>
    /\ UNCHANGED <<job, credentials_set, db, max_results, count, page, detail_idx,
                   gi_error, offsets, failure_seen>>

\* jira_cycle_time: the page's issues are fetched one by one with their changelog
GetIssuesPageKeys ==
    /\ gi_pc = "page_wait"
    /\ job = "jira_cycle_time"
    /\ bo_pc = "returned"
    /\ page' = bo_value
    /\ detail_idx' = 1
    /\ page_sizes' = Append(page_sizes, Len(bo_value))
    /\ gi_pc' = "details"
    /\ BackoffLeave
    /\ UNCHANGED <<zmVars, gpVars, restVars>>
    /\ UNCHANGED <<job, credentials_set, db, max_results, start_at, all_issues, count,
                   gi_result, gi_error, offsets, failure_seen>>

\* get_issue_with_changelog: backoff(call_jira_api, ..., exceptions=RequestException)
GetIssueWithChangelog ==
    /\ gi_pc = "details"
    /\ detail_idx <= Len(page)
    /\ bo_pc = "idle"
    /\ BackoffEnter("call_jira_api", DefaultSleepTime, DefaultMaxRetries, "RequestException")
    /\ gi_pc' = "detail_wait"
    /\ UNCHANGED <<zmVars, gpVars, restVars>>
    /\ UNCHANGED <<job, credentials_set, db, max_results, start_at, all_issues, count, page,
                   detail_idx, gi_result, gi_error, page_sizes, offsets, failure_seen>>

\* all_issues.append(issue_details)
GetIssuesAppendDetails ==
    /\ gi_pc = "detail_wait"
    /\ bo_pc = "returned"
    /\ all_issues' = Extend(all_issues, bo_value)
    /\ detail_idx' = detail_idx + 1
    /\ gi_pc' = "details"
    /\ BackoffLeave
    /\ UNCHANGED <<zmVars, gpVars, restVars>>
    /\ UNCHANGED <<job, credentials_set, db, max_results, start_at, count, page, gi_result,
                   gi_error, page_sizes, offsets, failure_seen>>

\* jira_cycle_time, after the for loop: break on a short page, else advance start_at
GetIssuesPageEnd ==
    /\ gi_pc = "details"
    /\ detail_idx > Len(page)
    /\ IF LastPage(Len(page), max_results)
       THEN /\ gi_pc' = "done"
            /\ gi_result' = all_issues
            /\ UNCHANGED start_at
       ELSE /\ gi_pc' = "loop"
            /\ start_at' = NextStartAt(start_at, max_results)
            /\ UNCHANGED gi_result
    /\ UNCHANGED <<zmVars, gpVars, restVars>>
    /\ UNCHANGED <<job, credentials_set, db, max_results, all_issues, count, page,
                   detail_idx, gi_error, page_sizes, offsets, failure_seen>>
    /\ UNCHANGED boVars

\* except ValueError as error: print(...); return []
GetIssuesValueError ==
    /\ gi_pc \in {"page_wait", "detail_wait"}
    /\ bo_pc = "raised"
    /\ Matches(bo_error, "ValueError")
    /\ gi_result' = <<>>
    /\ gi_pc' = "done"
    /\ failure_seen' = TRUE
    /\ BackoffLeave
    /\ UNCHANGED <<zmVars, gpVars, restVars>>
    /\ UNCHANGED <<job, credentials_set, db, max_results, start_at, all_issues, count, page,
                   detail_idx, gi_error, page_sizes, offsets>>

\* any other failure backoff raised leaves get_issues
GetIssuesRaise ==
    /\ gi_pc \in {"page_wait", "detail_wait"}
    /\ bo_pc = "raised"
    /\ ~Matches(bo_error, "ValueError")
    /\ gi_error' = bo_error
    /\ gi_pc' = "failed"
    /\ failure_seen' = TRUE
    /\ BackoffLeave
    /\ UNCHANGED <<zmVars, gpVars, restVars>>
    /\ UNCHANGED <<job, credentials_set, db, max_results, start_at, all_issues, count, page,
                   detail_idx, gi_result, page_sizes, offsets>>

\* get_issue_count: issue_details = call_jira_api(jira_url, auth), called directly;
\* count += len(...); break on a short page, else advance start_at
GetIssueCountPage ==
    /\ gi_pc = "loop"
    /\ job = "eng_metrics"
    /\ \E o \in CallJiraApiOutcomes(SearchPage(db, start_at, max_results)) :
        /\ o.ok
        /\ count' = count + Len(o.value)
        /\ page_sizes' = Append(page_sizes, Len(o.value))
        /\ IF LastPage(Len(o.value), max_results)
           THEN gi_pc' = "done" /\ UNCHANGED start_at
           ELSE gi_pc' = "loop" /\ start_at' = NextStartAt(start_at, max_results)
    /\ offsets' = Append(offsets, start_at)
    /\ UNCHANGED <<zmVars, gpVars, restVars>>
    /\ UNCHANGED <<job, credentials_set, db, max_results, all_issues, page, detail_idx,
                   gi_result, gi_error, failure_seen>>
    /\ UNCHANGED boVars

\* get_issue_count: except ValueError as error: print(...); return count
GetIssueCountValueError ==
    /\ gi_pc = "loop"
    /\ job = "eng_metrics"
    /\ \E o \in CallJiraApiOutcomes(SearchPage(db, start_at, max_results)) :
        /\ ~o.ok
        /\ Matches(o.kind, "ValueError")
    /\ gi_pc' = "done"
    /\ failure_seen' = TRUE
    /\ offsets' = Append(offsets, start_at)
    /\ UNCHANGED <<zmVars, gpVars, restVars>>
    /\ UNCHANGED <<job, credentials_set, db, max_results, start_at, all_issues, count, page,
                   detail_idx, gi_result, gi_error, page_sizes>>
    /\ UNCHANGED boVars

\* get_issue_count: a failure of call_jira_api that is no ValueError leaves the function
GetIssueCountRaise ==
    /\ gi_pc = "loop"
    /\ job = "eng_metrics"
    /\ \E o \in CallJiraApiOutcomes(SearchPage(db, start_at, max_results)) :
        /\ ~o.ok
        /\ ~Matches(o.kind, "ValueError")
        /\ gi_error' = o.kind
    /\ gi_pc' = "failed"
    /\ failure_seen' = TRUE
    /\ offsets' = Append(offsets, start_at)
    /\ UNCHANGED <<zmVars, gpVars, restVars>>
    /\ UNCHANGED <<job, credentials_set, db, max_results, start_at, all_issues, count, page,
                   detail_idx, gi_result, page_sizes>>
    /\ UNCHANGED boVars

OffsetIdle ==
    /\ job = "none"
    /\ credentials_set = FALSE
    /\ db = <<>>
    /\ max_results = 0
    /\ gi_pc = "idle"
    /\ start_at = 0
    /\ all_issues = <<>>
    /\ count = 0
    /\ page = <<>>
    /\ detail_idx = 0
    /\ gi_result = <<>>
    /\ gi_error = "none"
    /\ page_sizes = <<>>
    /\ offsets = <<>>
    /\ failure_seen = FALSE

(***************************************************************************)
(* Token-scheme fetcher: get_zoom_meeting_data and process_meeting of      *)
(* zoom_to_gsheet.py.                                                      *)
(***************************************************************************)
\* a server with n pages of one record each; the last page carries `last` as its token
Chain(n, last) ==
    [i \in 1..n |-> [has_records |-> TRUE, records |-> <<i>>,
                     next_page_token |-> IF i < n THEN TokenNames[i] ELSE last]]

Chains == {Chain(n, last) : n \in 1..MaxTokenPages, last \in {"", "absent"}}

\* mutant: only a missing key ends the loop, an empty token is sent back
HasNextPageIfKey(body) == body.next_page_token # "absent"

\* "next_page_token" in data and data["next_page_token"]
HasNextPage(body) == body.next_page_token \notin {"absent", ""}

\* make_request(url, headers, params): backoff(requests.get, ...), default budget
MakeRequest == BackoffEnter("requests_get", DefaultSleepTime, DefaultMaxRetries, "Exception")

\* response = make_request("https://api.zoom.us/v2/metrics/meetings", headers, params)
ZoomMeetingsRequest ==
    /\ zm_pc = "loop"
    /\ bo_pc = "idle"
    /\ MakeRequest
    /\ zm_pc' = "meetings_wait"
    /\ m_sent' = Append(m_sent, params_token)
    /\ UNCHANGED <<meeting_chain, participant_chain, params_token, participants_token,
                   meetings_data, meeting_idx, all_participants, meeting_processed, result,
                   m_received, p_sent, p_received>>
    /\ UNCHANGED <<giVars, gpVars, restVars>>

\* if response.status_code != 200: print(...); break; return result
ZoomMeetingsError ==
    /\ zm_pc = "meetings_wait"
    /\ bo_pc = "returned"
    /\ bo_value.status # 200
    /\ zm_pc' = "done"
    /\ BackoffLeave
    /\ UNCHANGED <<meeting_chain, participant_chain, params_token, participants_token,
                   meetings_data, meeting_idx, all_participants, meeting_processed, result,
                   m_sent, m_received, p_sent, p_received>>
    /\ UNCHANGED <<giVars, gpVars, restVars>>

\* meetings_data = response.json(); for meeting in meetings_data["meetings"]:
ZoomMeetingsPage ==
    /\ zm_pc = "meetings_wait"
    /\ bo_pc = "returned"
    /\ bo_value.status = 200
    /\ meetings_data' = bo_value.body
    /\ meeting_idx' = 1
    /\ m_received' = Append(m_received, bo_value.body.next_page_token)
    /\ zm_pc' = "meetings"
    /\ BackoffLeave
    /\ UNCHANGED <<meeting_chain, participant_chain, params_token, participants_token,
                   all_participants, meeting_processed, result, m_sent, p_sent, p_received>>
    /\ UNCHANGED <<giVars, gpVars, restVars>>

\* meeting_processed += 1; process_meeting(...): params_participants = {"page_size": 300}
ZoomProcessMeeting ==
    /\ zm_pc = "meetings"
    /\ meeting_idx <= Len(meetings_data.records)
    /\ meeting_processed' = meeting_processed + 1
    /\ participants_token' = "absent"
    /\ all_participants' = <<>>
    /\ p_sent' = <<>>
    /\ p_received' = <<>>
    /\ zm_pc' = "participants"
    /\ UNCHANGED <<meeting_chain, participant_chain, params_token, meetings_data,
                   meeting_idx, result, m_sent, m_received>>
    /\ UNCHANGED <<boVars, giVars, gpVars, restVars>>

\* participant_info = make_request(".../participants", headers, params_participants).json()
ZoomParticipantsRequest ==
    /\ zm_pc = "participants"
    /\ bo_pc = "idle"
    /\ MakeRequest
    /\ zm_pc' = "participants_wait"
    /\ p_sent' = Append(p_sent, participants_token)
    /\ UNCHANGED <<meeting_chain, participant_chain, params_token, participants_token,
                   meetings_data, meeting_idx, all_participants, meeting_processed, result,
                   m_sent, m_received, p_received>>
    /\ UNCHANGED <<giVars, gpVars, restVars>>

\* if "participants" not in participant_info: break
ZoomParticipantsMissing ==
    /\ zm_pc = "participants_wait"
    /\ bo_pc = "returned"
    /\ ~bo_value.body.has_records
    /\ zm_pc' = "info"
    /\ BackoffLeave
    /\ UNCHANGED <<meeting_chain, participant_chain, params_token, participants_token,
                   meetings_data, meeting_idx, all_participants, meeting_processed, result,
                   m_sent, m_received, p_sent, p_received>>
    /\ UNCHANGED <<giVars, gpVars, restVars>>

\* all_participants.extend(...); carry the token into the next request, or break
ZoomParticipantsPage ==
    /\ zm_pc = "participants_wait"
    /\ bo_pc = "returned"
    /\ bo_value.body.has_records
    /\ all_participants' = Extend(all_participants, bo_value.body.records)
    /\ p_received' = Append(p_received, bo_value.body.next_page_token)
    /\ IF HasNextPage(bo_value.body)
       THEN /\ participants_token' = bo_value.body.next_page_token
            /\ zm_pc' = "participants"
       ELSE /\ UNCHANGED participants_token
            /\ zm_pc' = "info"
    /\ BackoffLeave
    /\ UNCHANGED <<meeting_chain, participant_chain, params_token, meetings_data,
                   meeting_idx, meeting_processed, result, m_sent, m_received, p_sent>>
    /\ UNCHANGED <<giVars, gpVars, restVars>>

\* response = make_request(f"https://api.zoom.us/v2/past_meetings/{meeting['id']}", ...)
ZoomInfoRequest ==
    /\ zm_pc = "info"
    /\ bo_pc = "idle"
    /\ MakeRequest
    /\ zm_pc' = "info_wait"
    /\ UNCHANGED zmVarsButPc
    /\ UNCHANGED <<giVars, gpVars, restVars>>

\* status 200: the participants are processed into result; else process_meeting returns
ZoomInfo ==
    /\ zm_pc = "info_wait"
    /\ bo_pc = "returned"
    /\ result' = IF bo_value.status = 200
                 THEN Append(result, [meeting |-> meetings_data.records[meeting_idx],
                                      participants |-> all_participants])
                 ELSE result
    /\ meeting_idx' = meeting_idx + 1
    /\ zm_pc' = "meetings"
    /\ BackoffLeave
    /\ UNCHANGED <<meeting_chain, participant_chain, params_token, participants_token,
                   meetings_data, all_participants, meeting_processed, m_sent, m_received,
                   p_sent, p_received>>
    /\ UNCHANGED <<giVars, gpVars, restVars>>

\* after the for loop: carry the token into the next request, or break; return result
ZoomMeetingsPageEnd ==
    /\ zm_pc = "meetings"
    /\ meeting_idx > Len(meetings_data.records)
    /\ IF HasNextPage(meetings_data)
       THEN /\ params_token' = meetings_data.next_page_token
            /\ zm_pc' = "loop"
       ELSE /\ UNCHANGED params_token
            /\ zm_pc' = "done"
    /\ UNCHANGED <<meeting_chain, participant_chain, participants_token, meetings_data,
                   meeting_idx, all_participants, meeting_processed, result, m_sent,
                   m_received, p_sent, p_received>>
    /\ UNCHANGED <<boVars, giVars, gpVars, restVars>>

\* a failure make_request raises leaves get_zoom_meeting_data
ZoomRaise ==
    /\ zm_pc \in {"meetings_wait", "participants_wait", "info_wait"}
    /\ bo_pc = "raised"
    /\ zm_pc' = "failed"
    /\ BackoffLeave
    /\ UNCHANGED zmVarsButPc
    /\ UNCHANGED <<giVars, gpVars, restVars>>

ZoomIdle ==
    /\ meeting_chain = <<>>
    /\ participant_chain = <<>>
    /\ zm_pc = "idle"
    /\ params_token = "absent"
    /\ participants_token = "absent"
    /\ meetings_data = NoPage
    /\ meeting_idx = 0
    /\ all_participants = <<>>
    /\ meeting_processed = 0
    /\ result = <<>>
    /\ m_sent = <<>>
    /\ m_received = <<>>
    /\ p_sent = <<>>
    /\ p_received = <<>>

(***************************************************************************)
(* Cursor-scheme fetcher: get_pipelines of semaphoreci_to_gsheet.py, under *)
(* the handle_api_errors decorator.                                        *)
(***************************************************************************)
\* what a URL captured across several links of the header addresses: no page
GarbledUrl == 0

Link(url, rel) == [url |-> url, rel |-> rel]

\* the link header of page i of n: absent, or the links in the order of `style`
LinkHeader(i, n, style, last) ==
    LET next == IF i < n THEN <<Link(i + 1, "next")>> ELSE <<>>
        prev == IF i > 1 THEN <<Link(i - 1, "prev")>> ELSE <<>>
    IN  IF i = n /\ last = "absent"
        THEN [present |-> FALSE, links |-> <<>>]
        ELSE [present |-> TRUE,
              links |-> IF style = "next_first" THEN next \o prev ELSE prev \o next]

\* a server with n pages of one record each
PipelineChain(n, style, last) ==
    [i \in 1..n |-> [records |-> <<i>>, link |-> LinkHeader(i, n, style, last)]]

PipelineChains ==
    {PipelineChain(n, style, last) :
        n \in 1..MaxCursorPages, style \in {"next_first", "prev_first"},
        last \in {"absent", "no_next"}}

\* re.findall(r'<(.+?)>; rel="next"', link_header): the match starts at the first "<"
\* of the header, so the capture is the next link's URL only when that link comes first
NextMatches(links) ==
    IF \E k \in 1..Len(links) : links[k].rel = "next"
    THEN <<IF links[1].rel = "next" THEN links[1].url ELSE GarbledUrl>>
    ELSE <<>>

\* the Retry-After header values: absent, or a number of seconds
RetryAfterValues == {"absent"} \cup {ToString(n) : n \in 0..MaxRetryAfter}

\* int(retry_after)
IntOf(text) == CHOOSE n \in 0..MaxRetryAfter : ToString(n) = text

\* mutant: the header is ignored, the pause is always the default
PauseAlwaysDefault(retry_after) == 1

\* handle_rate_limiting: time.sleep(int(retry_after)) if retry_after else time.sleep(1)
\* (the header text of a number is never empty, so it is truthy)
PauseFor(retry_after) == IF retry_after # "absent" THEN IntOf(retry_after) ELSE 1

LogEntry(url, status, retry_after, records) ==
    [url |-> url, status |-> status, retry_after |-> retry_after, records |-> records]

\* if handle_rate_limiting(pipelines_response): continue
GetPipelinesRateLimited ==
    /\ gp_pc = "loop"
    /\ Len(pauses) < MaxRateLimits
    /\ \E retry_after \in RetryAfterValues :
        /\ pauses' = Append(pauses, PauseFor(retry_after))
        /\ gp_log' = Append(gp_log, LogEntry(pipelines_url, 429, retry_after, <<>>))
    /\ UNCHANGED <<pipeline_chain, gp_pc, pipelines_url, pipelines, gp_error>>
    /\ UNCHANGED <<boVars, giVars, zmVars, restVars>>

\* mutant: the request for a page without a next link is never answered
GetPipelinesPageHangs ==
    /\ gp_pc = "loop"
    /\ pipelines_url \in 1..Len(pipeline_chain)
    /\ LET response == pipeline_chain[pipelines_url]
           matches == NextMatches(response.link.links)
       IN  IF response.link.present /\ matches # <<>>
           THEN /\ pipelines' = Extend(pipelines, response.records)
                /\ gp_log' = Append(gp_log, LogEntry(pipelines_url, 200, "absent", response.records))
                /\ pipelines_url' = matches[1]
                /\ gp_pc' = "loop"
           ELSE /\ gp_pc' = "hung"
                /\ UNCHANGED <<pipelines, gp_log, pipelines_url>>
    /\ UNCHANGED <<pipeline_chain, gp_error, pauses>>
    /\ UNCHANGED <<boVars, giVars, zmVars, restVars>>

\* status 200: pipelines.extend(pipelines_data); follow rel="next" or break
GetPipelinesPage ==
    /\ gp_pc = "loop"
    /\ pipelines_url \in 1..Len(pipeline_chain)
    /\ LET response == pipeline_chain[pipelines_url]
           matches == NextMatches(response.link.links)
       IN  /\ pipelines' = Extend(pipelines, response.records)
           /\ gp_log' = Append(gp_log, LogEntry(pipelines_url, 200, "absent", response.records))
           /\ IF response.link.present /\ matches # <<>>
              THEN pipelines_url' = matches[1] /\ gp_pc' = "loop"
              ELSE UNCHANGED pipelines_url /\ gp_pc' = "done"
    /\ UNCHANGED <<pipeline_chain, gp_error, pauses>>
    /\ UNCHANGED <<boVars, giVars, zmVars, restVars>>

\* the key of a JSON error body, which pipelines.extend(dict) appends
ErrorBodyKey == 0

\* an error status with a JSON error body and no link header: the body's keys are
\* appended and the loop ends
GetPipelinesErrorStatus ==
    /\ gp_pc = "loop"
    /\ \E status \in {404, 500} :
        /\ status = 404 => pipelines_url = GarbledUrl
        /\ gp_log' = Append(gp_log, LogEntry(pipelines_url, status, "absent", <<ErrorBodyKey>>))
    /\ pipelines' = Extend(pipelines, <<ErrorBodyKey>>)
    /\ gp_pc' = "done"
    /\ UNCHANGED <<pipeline_chain, pipelines_url, gp_error, pauses>>
    /\ UNCHANGED <<boVars, giVars, zmVars, restVars>>

\* handle_api_errors: except (RequestException, JSONDecodeError): print; return None
GetPipelinesSwallowed ==
    /\ gp_pc = "loop"
    /\ \E kind \in {"ConnectionError", "JSONDecodeError"} :
        /\ Matches(kind, "RequestException") \/ Matches(kind, "JSONDecodeError")
        /\ gp_error' = kind
    /\ gp_pc' = "returned_none"
    /\ UNCHANGED <<pipeline_chain, pipelines_url, pipelines, gp_log, pauses>>
    /\ UNCHANGED <<boVars, giVars, zmVars, restVars>>

(***************************************************************************)
(* get_projects of semaphoreci_to_gsheet.py, under handle_api_errors.  It  *)
(* shares the response log and the pauses with get_pipelines; what it      *)
(* returns is the records of the last response of the log.                 *)
(***************************************************************************)
\* the project lists the server answers with
ProjectLists == {<<>>, <<1>>, <<1, 2>>}

\* projects = get_projects()
GetProjectsCall ==
    /\ gp_pc \in {"idle", "done", "failed", "returned_none"}
    /\ Len(gp_log) < MaxProjectCalls
    /\ gp_pc' = "projects"
    /\ gp_error' = "none"
    /\ UNCHANGED <<pipeline_chain, pipelines_url, pipelines, gp_log, pauses>>
    /\ UNCHANGED <<boVars, giVars, zmVars, restVars>>

\* if projects_response.status_code != 200: raise ApiError(...), which is no
\* RequestException, so handle_api_errors lets it through; the test comes before
\* handle_rate_limiting, so a 429 is raised like any other status
GetProjectsNot200 ==
    /\ gp_pc = "projects"
    /\ \E status \in {429, 500} :
        \E retry_after \in IF status = 429 THEN RetryAfterValues ELSE {"absent"} :
            gp_log' = Append(gp_log, LogEntry(0, status, retry_after, <<>>))
    /\ gp_error' = "ApiError"
    /\ gp_pc' = "failed"
    /\ UNCHANGED <<pipeline_chain, pipelines_url, pipelines, pauses>>
    /\ UNCHANGED <<boVars, giVars, zmVars, restVars>>

\* status 200: handle_rate_limiting returns False; return projects_response.json()
GetProjectsReturn ==
    /\ gp_pc = "projects"
    /\ \E records \in ProjectLists :
        gp_log' = Append(gp_log, LogEntry(0, 200, "absent", records))
    /\ gp_pc' = "done"
    /\ UNCHANGED <<pipeline_chain, pipelines_url, pipelines, gp_error, pauses>>
    /\ UNCHANGED <<boVars, giVars, zmVars, restVars>>

\* handle_api_errors: except (RequestException, JSONDecodeError): print; return None
GetProjectsSwallowed ==
    /\ gp_pc = "projects"
    /\ \E kind \in {"ConnectionError", "JSONDecodeError"} :
        /\ Matches(kind, "RequestException") \/ Matches(kind, "JSONDecodeError")
        /\ gp_error' = kind
    /\ gp_pc' = "returned_none"
    /\ UNCHANGED <<pipeline_chain, pipelines_url, pipelines, gp_log, pauses>>
    /\ UNCHANGED <<boVars, giVars, zmVars, restVars>>

CursorIdle ==
    /\ pipeline_chain = <<>>
    /\ gp_pc = "idle"
    /\ pipelines_url = 1
    /\ pipelines = <<>>
    /\ gp_error = "none"
    /\ gp_log = <<>>
    /\ pauses = <<>>

(***************************************************************************)
(* get_cycle_time of jira_cycle_time_to_gsheet.py.                         *)
(***************************************************************************)
STAGE_ORDER ==
    <<"Design Complete", "Backlog", "Triage", "Waiting for support", "Open",
      "Ready for Grooming", "Groomed", "In Progress", "In Review", "Review", "Merged",
      "Deploy", "In Test", "Awaiting Approval", "Closed", "Done", "Declined">>

\* STAGE_ORDER.index(stage) raises ValueError for a name that is not in the list
Known(stage) == \E i \in 1..Len(STAGE_ORDER) : STAGE_ORDER[i] = stage

\* STAGE_ORDER.index(stage), counted from 0
StageIndex(stage) ==
    (CHOOSE i \in 1..Len(STAGE_ORDER) :
        /\ STAGE_ORDER[i] = stage
        /\ \A j \in 1..(i - 1) : STAGE_ORDER[j] # stage) - 1

\* a timestamp text "2024-01-<day>T<hour>:00:00.000+0000"
Stamp(day, hour) == [day |-> day, hour |-> hour]

\* datetime.strptime(text, "%Y-%m-%dT%H:%M:%S.%f%z"), as seconds since 2024-01-01T00:00Z
Strptime(text) == ((text.day - 1) * 24 + text.hour) * 3600

SecondsPerDay == 86400

RECURSIVE GCD(_, _)
GCD(a, b) == IF b = 0 THEN a ELSE GCD(b, a % b)

Abs(n) == IF n < 0 THEN -n ELSE n

\* total_seconds() / 86400: the quotient as a fraction in lowest terms
Days(seconds) ==
    LET g == GCD(SecondsPerDay, Abs(seconds))
    IN  [num |-> seconds \div g, den |-> SecondsPerDay \div g]

Max(a, b) == IF a >= b THEN a ELSE b

\* mutant: a transition into the start stage itself is no start boundary
AtOrBeforeStrict(stage, start) == StageIndex(stage) < StageIndex(start)

\* STAGE_ORDER.index(item["toString"]) <= STAGE_ORDER.index(start_stage)
AtOrBefore(stage, start) == StageIndex(stage) <= StageIndex(start)

\* STAGE_ORDER.index(item["toString"]) >= STAGE_ORDER.index(end_stage)
AtOrAfter(stage, end) == StageIndex(stage) >= StageIndex(end)

Item(field, toString) == [field |-> field, toString |-> toString]

\* the stages the issues of the model move through; "Blocked" is not in STAGE_ORDER
TimelineStages == {"Open", "In Progress", "Merged", "Closed", "Blocked"}

TransitionStamps == {Stamp(5, 0), Stamp(10, 0), Stamp(10, 12), Stamp(20, 0)}

\* the records of changelog.histories: a status change next to another field's change,
\* a change of another field only, and a record without "items"
HistoryRecords ==
    {[created |-> t, has_items |-> TRUE,
      items |-> <<Item("assignee", "Open"), Item("status", stage)>>] :
        t \in TransitionStamps, stage \in TimelineStages}
    \cup {[created |-> Stamp(20, 0), has_items |-> TRUE, items |-> <<Item("labels", "Closed")>>],
          [created |-> Stamp(5, 0), has_items |-> FALSE, items |-> <<>>]}

\* the items of a record that the loop does not skip
StatusItems(record) ==
    IF record.has_items
    THEN SelectSeq(record.items, LAMBDA item : item.field = "status")
    ELSE <<>>

\* mutant: the start boundary is the last transition met, not the latest
StartAfterLastMet(time, items, created_time) ==
    IF \E k \in 1..Len(items) : AtOrBefore(items[k].toString, start_stage)
    THEN created_time ELSE time

RECURSIVE StartAfter(_, _, _)
\* start_time after the items: max(start_time, created_time) per item at or before start_stage
StartAfter(time, items, created_time) ==
    IF items = <<>> THEN time
    ELSE StartAfter(IF AtOrBefore(items[1].toString, start_stage)
                    THEN Max(time, created_time) ELSE time,
                    Tail(items), created_time)

\* mutant: the end boundary is the latest transition at or after end_stage
EndAfterLatest(time, items, created_time) ==
    IF \E k \in 1..Len(items) : AtOrAfter(items[k].toString, end_stage)
    THEN Max(time, created_time) ELSE time

RECURSIVE EndAfter(_, _, _)
\* end_time after the items: min(end_time, created_time) per item at or after end_stage
EndAfter(time, items, created_time) ==
    IF items = <<>> THEN time
    ELSE EndAfter(IF AtOrAfter(items[1].toString, end_stage)
                  THEN Min(time, created_time) ELSE time,
                  Tail(items), created_time)

\* lines 231-232: both timestamps are parsed; strptime(None, ...) raises TypeError
GetCycleTimeBegin ==
    /\ ct_pc = "called"
    /\ IF issue.resolved
       THEN /\ start_time' = Strptime(issue.created)
            /\ end_time' = Strptime(issue.resolutiondate)
            /\ ct_pc' = "loop"
            /\ UNCHANGED ct_error
       ELSE /\ ct_pc' = "failed"
            /\ ct_error' = "TypeError"
            /\ UNCHANGED <<start_time, end_time>>
    /\ UNCHANGED <<issue, start_stage, end_stage, history, cycle_time, changelog>>
    /\ UNCHANGED <<fetchVars, ptVars, shVars, emVars, ccVars>>

\* one round of `for record in history` on a record whose stages are all known
GetCycleTimeRecord ==
    /\ ct_pc = "loop"
    /\ \E record \in changelog \ history :
        /\ Cardinality(history) < MaxHistory
        /\ \A k \in 1..Len(StatusItems(record)) : Known(StatusItems(record)[k].toString)
        /\ start_time' = StartAfter(start_time, StatusItems(record), Strptime(record.created))
        /\ end_time' = EndAfter(end_time, StatusItems(record), Strptime(record.created))
        /\ history' = history \cup {record}
    /\ UNCHANGED <<issue, start_stage, end_stage, ct_pc, cycle_time, ct_error, changelog>>
    /\ UNCHANGED <<fetchVars, ptVars, shVars, emVars, ccVars>>

\* a round on a record with a status that STAGE_ORDER lacks: list.index raises ValueError
GetCycleTimeUnknownStage ==
    /\ ct_pc = "loop"
    /\ \E record \in changelog \ history :
        /\ Cardinality(history) < MaxHistory
        /\ \E k \in 1..Len(StatusItems(record)) : ~Known(StatusItems(record)[k].toString)
        /\ history' = history \cup {record}
    /\ ct_pc' = "failed"
    /\ ct_error' = "ValueError"
    /\ UNCHANGED <<issue, start_stage, end_stage, start_time, end_time, cycle_time, changelog>>
    /\ UNCHANGED <<fetchVars, ptVars, shVars, emVars, ccVars>>

\* return (end_time - start_time).total_seconds() / 86400
GetCycleTimeReturn ==
    /\ ct_pc = "loop"
    /\ cycle_time' = Days(end_time - start_time)
    /\ ct_pc' = "returned"
    /\ UNCHANGED <<issue, start_stage, end_stage, start_time, end_time, history, ct_error,
                   changelog>>
    /\ UNCHANGED <<fetchVars, ptVars, shVars, emVars, ccVars>>

CycleIdle ==
    /\ issue = [created |-> Stamp(1, 0), resolved |-> FALSE, resolutiondate |-> Stamp(1, 0)]
    /\ start_stage = "Open"
    /\ end_stage = "Merged"
    /\ ct_pc = "idle"
    /\ start_time = 0
    /\ end_time = 0
    /\ history = {}
    /\ cycle_time = Days(0)
    /\ ct_error = "none"
    /\ changelog = {}

(***************************************************************************)
(* calculate_cycle_time and main of jira_cycle_time_to_gsheet.py, for one  *)
(* month.  The issues that get_issues returns are inputs here, met one by  *)
(* one; get_cycle_time runs on each of them as modelled above.             *)
(***************************************************************************)
\* row_name, start_stage and end_stage of the entries of SYNC_CONFIG
SYNC_CONFIG ==
    <<[row_name |-> "Bug Resolution Time", start_stage |-> "Triage", end_stage |-> "Merged"],
      [row_name |-> "Support Bug Resolution Time", start_stage |-> "Triage",
       end_stage |-> "Merged"],
      [row_name |-> "Design Time (Stories, Epics)", start_stage |-> "Open",
       end_stage |-> "In Progress"],
      [row_name |-> "Completion Time (Stories, Epics)", start_stage |-> "In Progress",
       end_stage |-> "Merged"],
      [row_name |-> "Verification Time", start_stage |-> "Merged", end_stage |-> "Closed"]>>

\* the issues of the model: created and resolved on the days named, or not resolved
Issues ==
    [created : {Stamp(1, 0), Stamp(10, 0)},
     resolved : {TRUE},
     resolutiondate : {Stamp(25, 0), Stamp(10, 0)}]
    \cup {[created |-> Stamp(1, 0), resolved |-> FALSE, resolutiondate |-> Stamp(1, 0)]}

\* the changelog records of the issues of a run of main: into In Progress on 01-05, into
\* Open on 01-10, into the unknown stage on 01-20
JobHistoryRecords ==
    {r \in HistoryRecords :
        /\ Len(StatusItems(r)) = 1
        /\ <<r.created, StatusItems(r)[1].toString>> \in
            {<<Stamp(5, 0), "In Progress">>, <<Stamp(10, 0), "Open">>,
             <<Stamp(20, 0), "Blocked">>}}

\* a fraction in lowest terms, den > 0
Fraction(num, den) ==
    LET g == GCD(den, Abs(num))
    IN  [num |-> num \div g, den |-> den \div g]

RECURSIVE Sum(_)
\* sum(cycle_times)
Sum(times) ==
    IF times = <<>> THEN Fraction(0, 1)
    ELSE LET rest == Sum(Tail(times))
         IN  Fraction(times[1].num * rest.den + rest.num * times[1].den,
                      times[1].den * rest.den)

\* mutant: the values below zero are left out of the list
WithoutNegatives(times) == SelectSeq(times, LAMBDA t : t.num >= 0)

\* [cycle_time for cycle_time in cycle_times if cycle_time is not None]: get_cycle_time
\* returns a number or raises, so nothing is removed
WithoutNone(times) == times

\* mutant: the sum is not divided
MeanUndivided(times) == Sum(times)

\* sum(cycle_times) / len(cycle_times) if cycle_times else 0
Mean(times) ==
    IF times = <<>> THEN Fraction(0, 1)
    ELSE Fraction(Sum(times).num, Sum(times).den * Len(times))

\* main, one round of `for config in SYNC_CONFIG`: get_issues, then calculate_cycle_time
\* is called with the stages of the config
MainConfig ==
    /\ mn_pc = "config"
    /\ config_idx <= Len(SYNC_CONFIG)
    /\ start_stage' = SYNC_CONFIG[config_idx].start_stage
    /\ end_stage' = SYNC_CONFIG[config_idx].end_stage
    /\ cycle_times' = <<>>
    /\ cc_pc' = "loop"
    /\ mn_pc' = "calculating"
    /\ UNCHANGED <<issue, ct_pc, start_time, end_time, history, cycle_time, ct_error, changelog>>
    /\ UNCHANGED <<average, cc_error, mn_months, mn_month, mn_updates, config_idx, mn_data,
                   mn_error>>
    /\ UNCHANGED <<fetchVars, ptVars, shVars, emVars>>

\* the list comprehension of calculate_cycle_time reaches the next issue
CalculateNextIssue ==
    /\ cc_pc = "loop"
    /\ Len(cycle_times) < MaxIssues
    /\ issue' \in Issues
    /\ ct_pc' = "called"
    /\ history' = {}
    /\ UNCHANGED <<start_stage, end_stage, start_time, end_time, cycle_time, ct_error, changelog>>
    /\ cc_pc' = "issue"
    /\ UNCHANGED <<cycle_times, average, cc_error, mn_pc, mn_months, mn_month, mn_updates,
                   config_idx, mn_data, mn_error>>
    /\ UNCHANGED <<fetchVars, ptVars, shVars, emVars>>

\* get_cycle_time has returned: its value is the next element of cycle_times
CalculateCollect ==
    /\ cc_pc = "issue"
    /\ ct_pc = "returned"
    /\ cycle_times' = Append(cycle_times, cycle_time)
    /\ cc_pc' = "loop"
    /\ ct_pc' = "idle"
    /\ UNCHANGED <<issue, start_stage, end_stage, start_time, end_time, history, cycle_time,
                   ct_error, changelog>>
    /\ UNCHANGED <<average, cc_error, mn_pc, mn_months, mn_month, mn_updates, config_idx,
                   mn_data, mn_error>>
    /\ UNCHANGED <<fetchVars, ptVars, shVars, emVars>>

\* mutant: the issue whose cycle time failed is left out and the loop goes on
CalculateDropIssue ==
    /\ cc_pc = "issue"
    /\ ct_pc = "failed"
    /\ cc_pc' = "loop"
    /\ ct_pc' = "idle"
    /\ UNCHANGED <<issue, start_stage, end_stage, start_time, end_time, history, cycle_time,
                   ct_error, changelog>>
    /\ UNCHANGED <<cycle_times, average, cc_error, mn_pc, mn_months, mn_month, mn_updates,
                   config_idx, mn_data, mn_error>>
    /\ UNCHANGED <<fetchVars, ptVars, shVars, emVars>>

\* get_cycle_time has raised: nothing in calculate_cycle_time catches
CalculatePropagate ==
    /\ cc_pc = "issue"
    /\ ct_pc = "failed"
    /\ cc_pc' = "failed"
    /\ cc_error' = ct_error
    /\ UNCHANGED <<cycle_times, average, mn_pc, mn_months, mn_month, mn_updates, config_idx,
                   mn_data, mn_error>>
    /\ UNCHANGED <<ctVars, fetchVars, ptVars, shVars, emVars>>

\* every issue has been gone through: the mean is returned
CalculateReturn ==
    /\ cc_pc = "loop"
    /\ average' = Mean(WithoutNone(cycle_times))
    /\ cc_pc' = "returned"
    /\ UNCHANGED <<cycle_times, cc_error, mn_pc, mn_months, mn_month, mn_updates, config_idx,
                   mn_data, mn_error>>
    /\ UNCHANGED <<ctVars, fetchVars, ptVars, shVars, emVars>>

\* data.append([config["row_name"], cycle_time])
MainAppend ==
    /\ mn_pc = "calculating"
    /\ cc_pc = "returned"
    /\ mn_data' = Append(mn_data, SYNC_CONFIG[config_idx].row_name)
    /\ config_idx' = config_idx + 1
    /\ mn_pc' = "config"
    /\ cc_pc' = "idle"
    /\ UNCHANGED <<cycle_times, average, cc_error, mn_months, mn_month, mn_updates, mn_error>>
    /\ UNCHANGED <<ctVars, fetchVars, ptVars, shVars, emVars>>

\* calculate_cycle_time has raised: nothing in main catches, the job ends
MainCrash ==
    /\ mn_pc = "calculating"
    /\ cc_pc = "failed"
    /\ mn_pc' = "crashed"
    /\ mn_error' = cc_error
    /\ UNCHANGED <<cc_pc, cycle_times, average, cc_error, mn_months, mn_month, mn_updates,
                   config_idx, mn_data>>
    /\ UNCHANGED <<ctVars, fetchVars, ptVars, shVars, emVars>>

\* after the last config: update_google_sheets(google_credentials, dataframe, month) is called
MainUpdate ==
    /\ mn_pc = "config"
    /\ config_idx > Len(SYNC_CONFIG)
    /\ mn_pc' = "updating"
    /\ mn_updates' = mn_updates \cup {mn_month}
    /\ UNCHANGED <<cc_pc, cycle_times, average, cc_error, mn_months, mn_month, config_idx,
                   mn_data, mn_error>>
    /\ UNCHANGED <<ctVars, fetchVars, ptVars, shVars, emVars>>

\* update_google_sheets has returned: `for month in args.months` goes on or ends
MainNextMonth ==
    /\ mn_pc = "updating"
    /\ IF mn_month < mn_months
       THEN /\ mn_month' = mn_month + 1
            /\ config_idx' = 1
            /\ mn_data' = <<>>
            /\ mn_pc' = "config"
       ELSE /\ mn_pc' = "done"
            /\ UNCHANGED <<mn_month, config_idx, mn_data>>
    /\ UNCHANGED <<cc_pc, cycle_times, average, cc_error, mn_months, mn_updates, mn_error>>
    /\ UNCHANGED <<ctVars, fetchVars, ptVars, shVars, emVars>>

\* update_google_sheets has raised (APIError after the retries): the job ends
MainUpdateRaises ==
    /\ mn_pc = "updating"
    /\ mn_pc' = "crashed"
    /\ mn_error' = "APIError"
    /\ UNCHANGED <<cc_pc, cycle_times, average, cc_error, mn_months, mn_month, mn_updates,
                   config_idx, mn_data>>
    /\ UNCHANGED <<ctVars, fetchVars, ptVars, shVars, emVars>>

JobIdle ==
    /\ cc_pc = "idle"
    /\ cycle_times = <<>>
    /\ average = Fraction(0, 1)
    /\ cc_error = "none"
    /\ mn_pc = "idle"
    /\ mn_months = 1
    /\ mn_month = 1
    /\ mn_updates = {}
    /\ config_idx = 1
    /\ mn_data = <<>>
    /\ mn_error = "none"

(***************************************************************************)
(* update_google_sheets of jira_cycle_time_to_gsheet.py, github_to_gsheet  *)
(* .py and jira_ic_to_gsheet.py, one action per call to the store.  Every  *)
(* store call goes through backoff with exceptions=APIError: it returns,   *)
(* or the last APIError leaves the function.                               *)
(***************************************************************************)
\* the processes that may run the script against the same worksheet
Writers == {1, 2}

SheetJobs == {"jira_cycle_time", "github", "jira_ic"}

\* values of month_converted, strftime("%B %Y")
MonthLabels == {"January 2024", "February 2024"}

\* values of row["Type"] / row["Engineer - IC"]
RowLabels == {"Alice", "Bob"}

\* values of row[month_converted] / row["count"]
CellValues == {5, 7}

\* what the worksheet shows for a number written to a cell
CellText(value) == ToString(value)

\* list.insert(index, x)
ListInsert(list, index, x) ==
    LET at == Min(index, Len(list))
    IN  SubSeq(list, 1, at) \o <<x>> \o SubSeq(list, at + 1, Len(list))

\* sheet.insert_cols(2), as the call is meant: an empty column becomes column `col`
InsertCols(ws, col) == [r \in 1..Len(ws) |-> ListInsert(ws[r], col - 1, "")]

\* sheet.update("A1", [values]): the cells of row 1 from column A on
UpdateA1(ws, values) ==
    [ws EXCEPT ![1] = [i \in 1..Max(Len(ws[1]), Len(values)) |->
                        IF i <= Len(values) THEN values[i] ELSE ws[1][i]]]

\* data[row_index] += [""] * (column - len(data[row_index]))
PadTo(row, n) == [i \in 1..Max(Len(row), n) |-> IF i <= Len(row) THEN row[i] ELSE ""]

\* sheet.update_cell(row, col, value), and the same assignment in memory
UpdateCell(ws, row, col, text) == [ws EXCEPT ![row] = [PadTo(ws[row], col) EXCEPT ![col] = text]]

\* mutant: a label that no row carries falls back to the last row
MatchingRowsOrLast(ws, label) ==
    IF \E i \in 1..Len(ws) : ws[i][1] = label
    THEN {i \in 1..Len(ws) : ws[i][1] = label}
    ELSE {Len(ws)}

\* [i for i, row_values in enumerate(data) if row_values[0] == label], counted from 1
MatchingRows(ws, label) == {i \in 1..Len(ws) : ws[i][1] = label}

\* the position of the column that insert_cols(2) creates
NewColumn == 2

\* where headers.insert(1, month_converted) puts the label
HeaderInsertIndex == 1

\* update_google_sheets(credentials, dataframe, month_converted) is called
SheetCall(w, month) ==
    /\ sh_pc[w] \in {"idle", "done", "failed"}
    /\ sh_calls < MaxCalls
    /\ sh_calls' = sh_calls + 1
    /\ sh_pc' = [sh_pc EXCEPT ![w] = "row_values"]
    /\ sh_month' = [sh_month EXCEPT ![w] = month]
    /\ sh_rows' = [sh_rows EXCEPT ![w] = 0]
    /\ sh_inserted' = [sh_inserted EXCEPT ![w] = FALSE]
    /\ UNCHANGED <<sheet, sh_job, headers, column, data, upserts>>
    /\ header_reads' = [header_reads EXCEPT ![w] = 0]
    /\ UNCHANGED user_row_index
    /\ UNCHANGED <<fetchVars, ptVars, ctVars, emVars, ccVars>>

\* mutant: the label is put into the header list without looking for it
SheetRowValuesBlind(w) ==
    /\ sh_pc[w] = "row_values"
    /\ headers' = [headers EXCEPT ![w] =
            ListInsert(get_row_values(sheet, 1), HeaderInsertIndex, sh_month[w])]
    /\ sh_pc' = [sh_pc EXCEPT ![w] = "insert_cols"]
    /\ UNCHANGED <<sheet, sh_job, sh_month, column, data, sh_rows, sh_inserted, sh_calls, upserts>>
    /\ header_reads' = [header_reads EXCEPT ![w] = header_reads[w] + 1]
    /\ UNCHANGED user_row_index
    /\ UNCHANGED <<fetchVars, ptVars, ctVars, emVars, ccVars>>

\* headers = row_values(sheet, 1); if month_converted not in headers: headers.insert(1, ...)
SheetRowValues(w) ==
    /\ sh_pc[w] = "row_values"
    /\ LET row == get_row_values(sheet, 1)
           present == \E i \in 1..Len(row) : row[i] = sh_month[w]
       IN  /\ headers' = [headers EXCEPT ![w] =
                IF present THEN row ELSE ListInsert(row, HeaderInsertIndex, sh_month[w])]
           /\ sh_pc' = [sh_pc EXCEPT ![w] = IF present THEN "get_all_values" ELSE "insert_cols"]
    /\ UNCHANGED <<sheet, sh_job, sh_month, column, data, sh_rows, sh_inserted, sh_calls, upserts>>
    /\ header_reads' = [header_reads EXCEPT ![w] = header_reads[w] + 1]
    /\ UNCHANGED user_row_index
    /\ UNCHANGED <<fetchVars, ptVars, ctVars, emVars, ccVars>>

\* backoff(sheet.insert_cols, args=(2,))
SheetInsertCols(w) ==
    /\ sh_pc[w] = "insert_cols"
    /\ sheet' = InsertCols(sheet, NewColumn)
    /\ sh_inserted' = [sh_inserted EXCEPT ![w] = TRUE]
    /\ sh_pc' = [sh_pc EXCEPT ![w] = "update"]
    /\ UNCHANGED <<sh_job, sh_month, headers, column, data, sh_rows, sh_calls, upserts>>
    /\ UNCHANGED <<header_reads, user_row_index>>
    /\ UNCHANGED <<fetchVars, ptVars, ctVars, emVars, ccVars>>

\* backoff(sheet.update, args=("A1", [headers]))
SheetUpdate(w) ==
    /\ sh_pc[w] = "update"
    /\ sheet' = UpdateA1(sheet, headers[w])
    /\ sh_pc' = [sh_pc EXCEPT ![w] = "get_all_values"]
    /\ UNCHANGED <<sh_job, sh_month, headers, column, data, sh_rows, sh_inserted, sh_calls, upserts>>
    /\ UNCHANGED <<header_reads, user_row_index>>
    /\ UNCHANGED <<fetchVars, ptVars, ctVars, emVars, ccVars>>

\* column = headers.index(month_converted) + 1; data = sheet.get_all_values()
SheetGetAllValues(w) ==
    /\ sh_pc[w] = "get_all_values"
    /\ column' = [column EXCEPT ![w] = ListIndex(headers[w], sh_month[w]) + 1]
    /\ data' = [data EXCEPT ![w] = sheet]
    /\ sh_pc' = [sh_pc EXCEPT ![w] = "rows"]
    /\ UNCHANGED <<sheet, sh_job, sh_month, headers, sh_rows, sh_inserted, sh_calls, upserts>>
    /\ UNCHANGED <<header_reads, user_row_index>>
    /\ UNCHANGED <<fetchVars, ptVars, ctVars, emVars, ccVars>>

\* the last two elements of a sequence
LastTwo(seq) == IF Len(seq) <= 2 THEN seq ELSE SubSeq(seq, Len(seq) - 1, Len(seq))

\* one round of `for _, row in dataframe.iterrows()`: the first row of the worksheet whose
\* first cell is the label gets the value at `column`; without such a row nothing is
\* written.  jira_ic reads the worksheet again in every round, the others keep `data`.
SheetRow(w, label, value) ==
    /\ sh_pc[w] = "rows"
    /\ sh_rows[w] < MaxBatch
    /\ LET seen == IF sh_job = "jira_ic" THEN sheet ELSE data[w]
           rows == MatchingRows(seen, label)
           row_index == CHOOSE i \in rows : \A j \in rows : i <= j
           after == IF rows = {} THEN sheet
                    ELSE UpdateCell(sheet, row_index, column[w], CellText(value))
       IN  /\ sheet' = after
           /\ data' = [data EXCEPT ![w] =
                IF rows = {} \/ sh_job = "jira_ic" THEN data[w]
                ELSE UpdateCell(data[w], row_index, column[w], CellText(value))]
           /\ upserts' = LastTwo(Append(upserts,
                [label |-> label, month |-> sh_month[w], value |-> value, call |-> sh_calls,
                 before |-> sheet, after |-> after]))
    /\ sh_rows' = [sh_rows EXCEPT ![w] = sh_rows[w] + 1]
    /\ UNCHANGED <<sh_job, sh_pc, sh_month, headers, column, sh_inserted, sh_calls>>
    /\ UNCHANGED <<header_reads, user_row_index>>
    /\ UNCHANGED <<fetchVars, ptVars, ctVars, emVars, ccVars>>

\* the dataframe has no further row
SheetReturn(w) ==
    /\ sh_pc[w] = "rows"
    /\ sh_pc' = [sh_pc EXCEPT ![w] = "done"]
    /\ UNCHANGED <<sheet, sh_job, sh_month, headers, column, data, sh_rows, sh_inserted,
                   sh_calls, upserts>>
    /\ UNCHANGED <<header_reads, user_row_index>>
    /\ UNCHANGED <<fetchVars, ptVars, ctVars, emVars, ccVars>>

\* mutant: a failure in the row loop takes back the write of the round before it
SheetApiErrorRollback(w) ==
    /\ sh_pc[w] \in {"row_values", "insert_cols", "update", "get_all_values", "rows"}
    /\ sh_pc' = [sh_pc EXCEPT ![w] = "failed"]
    /\ sheet' = IF sh_pc[w] = "rows" /\ sh_rows[w] >= 1 THEN upserts[Len(upserts)].before
                ELSE sheet
    /\ UNCHANGED <<sh_job, sh_month, headers, column, data, sh_rows, sh_inserted,
                   sh_calls, upserts>>
    /\ UNCHANGED <<header_reads, user_row_index>>
    /\ UNCHANGED <<fetchVars, ptVars, ctVars, emVars, ccVars>>

\* a store call keeps raising APIError and backoff re-raises the last one
SheetApiError(w) ==
    /\ sh_pc[w] \in {"row_values", "insert_cols", "update", "get_all_values", "rows"}
    /\ sh_pc' = [sh_pc EXCEPT ![w] = "failed"]
    /\ UNCHANGED <<sheet, sh_job, sh_month, headers, column, data, sh_rows, sh_inserted,
                   sh_calls, upserts>>
    /\ UNCHANGED <<header_reads, user_row_index>>
    /\ UNCHANGED <<fetchVars, ptVars, ctVars, emVars, ccVars>>

(***************************************************************************)
(* update_google_sheet of zoom_to_gsheet.py: one call writes one cell.     *)
(* main calls it for every engineer of meeting_data and every worksheet;   *)
(* the model follows the calls that go to one worksheet.                   *)
(***************************************************************************)
\* worksheet.col_values(col): the cells of the column
col_values(ws, col) == [r \in 1..Len(ws) |-> IF col <= Len(ws[r]) THEN ws[r][col] ELSE ""]

\* main: update_google_sheet(google_credentials, full_name, data[...], sheet_name, month)
ZoomUpdateGoogleSheet(w) ==
    /\ sh_job = "zoom"
    /\ sh_pc[w] \in {"idle", "done"}
    /\ sh_rows[w] < MaxBatch
    /\ sh_pc' = [sh_pc EXCEPT ![w] = "month_index"]
    /\ UNCHANGED <<sheet, sh_job, sh_month, headers, column, data, sh_rows, sh_inserted,
                   sh_calls, upserts, header_reads, user_row_index>>
    /\ UNCHANGED <<fetchVars, ptVars, ctVars, emVars, ccVars>>

\* mutant: the lookup is given the retry budget of the open_by_key call
ZoomGetMonthIndexCallThirty(w) ==
    /\ sh_pc[w] = "month_index"
    /\ bo_pc = "idle"
    /\ BackoffEnter("get_month_index", DefaultSleepTime, 2 * DefaultMaxRetries, "Exception")
    /\ sh_pc' = [sh_pc EXCEPT ![w] = "month_index_wait"]
    /\ UNCHANGED <<sheet, sh_job, sh_month, headers, column, data, sh_rows, sh_inserted,
                   sh_calls, upserts, header_reads, user_row_index>>
    /\ UNCHANGED <<giVars, zmVars, gpVars, ghVars, ptVars, ctVars, emVars, ccVars>>

\* month_col_index = backoff(get_month_index, args=(worksheet, month_converted)), with
\* the defaults of backoff: sleep_time=1, max_retries=15, exceptions=Exception
ZoomGetMonthIndexCall(w) ==
    /\ sh_pc[w] = "month_index"
    /\ bo_pc = "idle"
    /\ BackoffEnter("get_month_index", DefaultSleepTime, DefaultMaxRetries, "Exception")
    /\ sh_pc' = [sh_pc EXCEPT ![w] = "month_index_wait"]
    /\ UNCHANGED <<sheet, sh_job, sh_month, headers, column, data, sh_rows, sh_inserted,
                   sh_calls, upserts, header_reads, user_row_index>>
    /\ UNCHANGED <<giVars, zmVars, gpVars, ghVars, ptVars, ctVars, emVars, ccVars>>

\* backoff returned the index; every attempt of it has sent row_values(1)
ZoomGetMonthIndexReturned(w) ==
    /\ sh_pc[w] = "month_index_wait"
    /\ bo_pc = "returned"
    /\ column' = [column EXCEPT ![w] = bo_value]
    /\ header_reads' = [header_reads EXCEPT ![w] = header_reads[w] + invocations]
    /\ sh_pc' = [sh_pc EXCEPT ![w] = "user_row_index"]
    /\ BackoffLeave
    /\ UNCHANGED <<sheet, sh_job, sh_month, headers, data, sh_rows, sh_inserted, sh_calls,
                   upserts, user_row_index>>
    /\ UNCHANGED <<giVars, zmVars, gpVars, ghVars, ptVars, ctVars, emVars, ccVars>>

\* backoff raised the last failure, which nothing in update_google_sheet or main catches
ZoomGetMonthIndexRaised(w) ==
    /\ sh_pc[w] = "month_index_wait"
    /\ bo_pc = "raised"
    /\ header_reads' = [header_reads EXCEPT ![w] = header_reads[w] + invocations]
    /\ sh_pc' = [sh_pc EXCEPT ![w] = "failed"]
    /\ BackoffLeave
    /\ UNCHANGED <<sheet, sh_job, sh_month, headers, column, data, sh_rows, sh_inserted,
                   sh_calls, upserts, user_row_index>>
    /\ UNCHANGED <<giVars, zmVars, gpVars, ghVars, ptVars, ctVars, emVars, ccVars>>

\* user_row_index = backoff(get_user_row_index, args=(worksheet, full_name))
ZoomGetUserRowIndex(w, full_name) ==
    /\ sh_pc[w] = "user_row_index"
    /\ LET names == col_values(sheet, 1)
           present == \E i \in 1..Len(names) : names[i] = full_name
       IN  /\ user_row_index' = [user_row_index EXCEPT ![w] =
                IF present THEN ListIndex(names, full_name) + 1 ELSE user_row_index[w]]
           /\ sh_pc' = [sh_pc EXCEPT ![w] = IF present THEN "update_cell" ELSE "failed"]
    /\ UNCHANGED <<sheet, sh_job, sh_month, headers, column, data, sh_rows, sh_inserted,
                   sh_calls, upserts, header_reads>>
    /\ UNCHANGED <<fetchVars, ptVars, ctVars, emVars, ccVars>>

\* backoff(worksheet.update_cell, args=(user_row_index, month_col_index, data))
ZoomUpdateCell(w, value) ==
    /\ sh_pc[w] = "update_cell"
    /\ sheet' = UpdateCell(sheet, user_row_index[w], column[w], CellText(value))
    /\ sh_rows' = [sh_rows EXCEPT ![w] = sh_rows[w] + 1]
    /\ sh_pc' = [sh_pc EXCEPT ![w] = "done"]
    /\ UNCHANGED <<sh_job, sh_month, headers, column, data, sh_inserted, sh_calls, upserts,
                   header_reads, user_row_index>>
    /\ UNCHANGED <<fetchVars, ptVars, ctVars, emVars, ccVars>>

\* a store call keeps failing and backoff raises the last failure out of main
ZoomSheetError(w) ==
    /\ sh_pc[w] \in {"user_row_index", "update_cell"}
    /\ sh_pc' = [sh_pc EXCEPT ![w] = "failed"]
    /\ UNCHANGED <<sheet, sh_job, sh_month, headers, column, data, sh_rows, sh_inserted,
                   sh_calls, upserts, header_reads, user_row_index>>
    /\ UNCHANGED <<fetchVars, ptVars, ctVars, emVars, ccVars>>

\* the worksheets of the model: a header row, empty or not, with or without the anchor
\* label and one period, above two rows of which the first cell is the row label
Ledgers ==
    {<<<<anchor, period>>, <<first, cell>>, <<"Bob", cell>>>> :
        anchor \in {"", "Type"}, period \in {"", "January 2024"},
        first \in {"Alice", ""}, cell \in {"", "3"}}

NoSheet == <<<<"">>>>

SheetIdle ==
    /\ sheet = NoSheet
    /\ sh_job = "jira_ic"
    /\ sh_pc = [w \in Writers |-> "idle"]
    /\ sh_month = [w \in Writers |-> "January 2024"]
    /\ headers = [w \in Writers |-> <<>>]
    /\ column = [w \in Writers |-> 1]
    /\ data = [w \in Writers |-> NoSheet]
    /\ sh_rows = [w \in Writers |-> 0]
    /\ sh_inserted = [w \in Writers |-> FALSE]
    /\ header_reads = [w \in Writers |-> 0]
    /\ user_row_index = [w \in Writers |-> 1]
    /\ sh_calls = 0
    /\ upserts = <<>>

(***************************************************************************)
(* fetch_and_update_metrics of eng_metrics_to_gsheet.py.  The counts that   *)
(* get_issue_count returns are inputs here.  A write outside the grid of   *)
(* the worksheet either raises APIError or makes the store grow the grid:  *)
(* the source does not decide which.                                       *)
(***************************************************************************)
\* the first keys of METRICS_QUERIES
METRICS_QUERIES == <<"Issues completed", "Epics completed">>

\* values of --months
MonthArgs == {"2024-01", "2024-02"}

\* datetime.strptime(month, "%Y-%m").strftime("%B %Y")
MonthFormatted(month) ==
    CASE month = "2024-01" -> "January 2024"
      [] month = "2024-02" -> "February 2024"

IssueCounts == {4, 6}

\* [cell.value for cell in worksheet.range("2:2")]: every cell of the row
RangeRow(ws, row) == ws[row]

\* mutant: only the cells of the column down to the last one that is not empty
RangeColumnFilled(ws, col) ==
    LET filled == {r \in 1..Len(ws) : ws[r][col] # ""}
    IN  [r \in 1..(IF filled = {} THEN 0 ELSE CHOOSE i \in filled : \A j \in filled : j <= i) |->
            ws[r][col]]

\* [cell.value for cell in worksheet.range("B:B")]: every cell of the column
RangeColumn(ws, col) == [r \in 1..Len(ws) |-> ws[r][col]]

\* the grid with rows and columns added up to (row, col)
GrownTo(ws, row, col) ==
    [r \in 1..Max(Len(ws), row) |->
        [c \in 1..Max(Len(ws[1]), col) |->
            IF r <= Len(ws) /\ c <= Len(ws[1]) THEN ws[r][c] ELSE ""]]

\* the row in which the label of a new month is written
MonthLabelRow == 1

\* the row in which the labels of the months are looked up
MonthLookupRow == 2

\* the column of the labels of the metrics
MetricColumn == 2

\* fetch_and_update_metrics([month]) is called; the counts are fetched
MetricsCall(month) ==
    /\ em_pc \in {"idle", "done", "failed"}
    /\ Len(em_runs) < MaxRuns
    /\ em_month' = month
    /\ em_pc' = "range"
    /\ UNCHANGED <<worksheet, all_months, month_column, em_metric, em_runs>>
    /\ UNCHANGED <<fetchVars, ptVars, ctVars, shVars, ccVars>>

\* all_months = [cell.value for cell in worksheet.range("2:2")]
MetricsRange ==
    /\ em_pc = "range"
    /\ all_months' = RangeRow(worksheet, MonthLookupRow)
    /\ em_pc' = "month"
    /\ UNCHANGED <<worksheet, em_month, month_column, em_metric, em_runs>>
    /\ UNCHANGED <<fetchVars, ptVars, ctVars, shVars, ccVars>>

\* if month not in all_months: append, update_cell(1, len(all_months), month);
\* month_column = all_months.index(month) + 1
MetricsMonth ==
    /\ em_pc = "month"
    /\ LET month == MonthFormatted(em_month)
           present == \E i \in 1..Len(all_months) : all_months[i] = month
           months == IF present THEN all_months ELSE Append(all_months, month)
       IN  /\ all_months' = months
           /\ month_column' = ListIndex(months, month) + 1
           /\ worksheet' =
                IF present THEN worksheet
                ELSE UpdateCell(GrownTo(worksheet, MonthLabelRow, Len(months)),
                                MonthLabelRow, Len(months), month)
    /\ em_metric' = 1
    /\ em_pc' = "metric"
    /\ UNCHANGED <<em_month, em_runs>>
    /\ UNCHANGED <<fetchVars, ptVars, ctVars, shVars, ccVars>>

\* one round of `for metric, value in metrics.items()`: the label of the metric is
\* looked up in column B and appended below it if absent, then the value is written
MetricsMetric ==
    /\ em_pc = "metric"
    /\ em_metric <= Len(METRICS_QUERIES)
    /\ \E value \in IssueCounts :
        LET metric == METRICS_QUERIES[em_metric]
            column_b == RangeColumn(worksheet, MetricColumn)
            present == \E i \in 1..Len(column_b) : column_b[i] = metric
            all_metrics == IF present THEN column_b ELSE Append(column_b, metric)
            metric_row == ListIndex(all_metrics, metric) + 1
            labelled == IF present THEN worksheet
                        ELSE UpdateCell(GrownTo(worksheet, Len(all_metrics), MetricColumn),
                                        Len(all_metrics), MetricColumn, metric)
        IN  worksheet' = UpdateCell(GrownTo(labelled, metric_row, month_column),
                                    metric_row, month_column, CellText(value))
    /\ em_metric' = em_metric + 1
    /\ UNCHANGED <<em_pc, em_month, all_months, month_column, em_runs>>
    /\ UNCHANGED <<fetchVars, ptVars, ctVars, shVars, ccVars>>

\* every metric of the month is written
MetricsReturn ==
    /\ em_pc = "metric"
    /\ em_metric > Len(METRICS_QUERIES)
    /\ em_pc' = "done"
    /\ em_runs' = Append(em_runs, em_month)
    /\ UNCHANGED <<worksheet, em_month, all_months, month_column, em_metric>>
    /\ UNCHANGED <<fetchVars, ptVars, ctVars, shVars, ccVars>>

\* a store call raises APIError, which nothing in the function catches: a read, or a
\* write, which may be one outside the grid
MetricsApiError ==
    /\ em_pc \in {"range", "month", "metric"}
    /\ em_pc = "month" =>
        \A i \in 1..Len(all_months) : all_months[i] # MonthFormatted(em_month)
    /\ em_pc = "metric" => em_metric <= Len(METRICS_QUERIES)
    /\ em_pc' = "failed"
    /\ em_runs' = Append(em_runs, em_month)
    /\ UNCHANGED <<worksheet, em_month, all_months, month_column, em_metric>>
    /\ UNCHANGED <<fetchVars, ptVars, ctVars, shVars, ccVars>>

\* the worksheets of the model: three columns, labels of metrics in column B, labels of
\* months in row `header` (1 or 2) or nowhere (0)
DataSheet(header, metric) ==
    [r \in 1..3 |-> [c \in 1..3 |->
        IF r = header /\ c = 3 THEN "January 2024"
        ELSE IF r = 3 /\ c = 2 THEN metric
        ELSE IF r = 3 /\ c = 3 /\ metric # "" /\ header # 0 THEN "4"
        ELSE ""]]

DataSheets == {DataSheet(header, metric) : header \in 0..2, metric \in {"", "Issues completed"}}

MetricsIdle ==
    /\ worksheet = NoSheet
    /\ em_pc = "idle"
    /\ em_month = "2024-01"
    /\ all_months = <<>>
    /\ month_column = 1
    /\ em_metric = 1
    /\ em_runs = <<>>

(***************************************************************************)
(* update_pto_sheet of pto_to_gsheet.py, one action per call to the store  *)
(* and one for the pandas DataFrame the function builds.  Only the writes  *)
(* of the out-of-office days go through backoff.                           *)
(***************************************************************************)
\* the header of the column of the engineers' names
EngineerHeader == "Engineer - IC"

\* names of engineers, in the worksheet and as keys of out_of_office_days
EngineerNames == {"Alice", "alice", "Bob"}

\* values of out_of_office_days
DayCounts == {1, 2}

\* mutant: names compared as they are written
LowerUnchanged(name) == name

\* str.lower()
Lower(name) ==
    CASE name = "Alice" -> "alice"
      [] name = "Bob" -> "bob"
      [] name = "Engineer - IC" -> "engineer - ic"
      [] OTHER -> name

\* int(text) of a cell's text succeeds
IsIntText(text) == \E n \in 0..31 : text = ToString(n)

\* the dictionaries out_of_office_days can be: items with distinct keys, in order
OutOfOfficeDays ==
    {d \in UNION {[1..n -> [engineer : EngineerNames, days : DayCounts]] : n \in 1..MaxEngineers} :
        \A i, j \in 1..Len(d) : i # j => d[i].engineer # d[j].engineer}

\* headers.index("Engineer - IC") raises ValueError, dataframe["Engineer - IC"] KeyError
HasEngineerColumn(hdrs) == \E i \in 1..Len(hdrs) : hdrs[i] = EngineerHeader

\* engineer_ic_index = headers.index("Engineer - IC")
engineer_ic_index(hdrs) == ListIndex(hdrs, EngineerHeader)

\* mask: the rows of the worksheet whose name is the engineer's when both are lowered
Mask(table, hdrs, engineer) ==
    {r \in 2..Len(table) : Lower(table[r][engineer_ic_index(hdrs) + 1]) = Lower(engineer)}

\* sheet.update_cell on every row of `rows`, one call after the other
UpdateCells(ws, rows, col, text) ==
    [r \in 1..Len(ws) |-> IF r \in rows THEN UpdateCell(ws, r, col, text)[r] ELSE ws[r]]

\* the n smallest elements of a set of rows
FirstRows(rows, n) == {r \in rows : Cardinality({q \in rows : q < r}) < n}

NoRound == [engineer |-> "", month |-> "", days |-> 0, before |-> <<>>, after |-> <<>>]

\* update_pto_sheet(month, out_of_office_days) is called
PtoCall(month, days) ==
    /\ pto_pc \in {"idle", "done", "failed"}
    /\ pto_runs < MaxPtoRuns
    /\ pto_runs' = pto_runs + 1
    /\ month_str' = MonthFormatted(month)
    /\ out_of_office_days' = days
    /\ pto_pc' = "get_all_values"
    /\ pto_idx' = 1
    /\ pto_error' = "none"
    /\ pto_round' = NoRound
    /\ UNCHANGED <<pto_sheet, pto_data, pto_headers>>
    /\ UNCHANGED <<fetchVars, ctVars, shVars, emVars, ccVars>>

\* data = pto_sheet.get_all_values(); headers = data[0]; if month_str not in headers
PtoGetAllValues ==
    /\ pto_pc = "get_all_values"
    /\ pto_data' = pto_sheet
    /\ pto_headers' = pto_sheet[1]
    /\ pto_pc' = IF \E i \in 1..Len(pto_sheet[1]) : pto_sheet[1][i] = month_str
                 THEN "dataframe" ELSE "insert_cols"
    /\ UNCHANGED <<pto_sheet, month_str, out_of_office_days, pto_idx, pto_error, pto_runs,
                   pto_round>>
    /\ UNCHANGED <<fetchVars, ctVars, shVars, emVars, ccVars>>

\* the header row has no "Engineer - IC": headers.index raises ValueError, or the
\* DataFrame has no such column and dataframe["Engineer - IC"] raises KeyError
PtoNoEngineerColumn ==
    /\ pto_pc \in {"insert_cols", "dataframe"}
    /\ ~HasEngineerColumn(pto_headers)
    /\ pto_error' = IF pto_pc = "insert_cols" THEN "ValueError" ELSE "KeyError"
    /\ pto_pc' = "failed"
    /\ UNCHANGED <<pto_sheet, month_str, out_of_office_days, pto_data, pto_headers, pto_idx,
                   pto_runs, pto_round>>
    /\ UNCHANGED <<fetchVars, ctVars, shVars, emVars, ccVars>>

\* pto_sheet.insert_cols(engineer_ic_index + 2), as the call is meant
PtoInsertCols ==
    /\ pto_pc = "insert_cols"
    /\ HasEngineerColumn(pto_headers)
    /\ pto_sheet' = InsertCols(pto_sheet, engineer_ic_index(pto_headers) + 2)
    /\ pto_pc' = "update_cell"
    /\ UNCHANGED <<month_str, out_of_office_days, pto_data, pto_headers, pto_idx, pto_error,
                   pto_runs, pto_round>>
    /\ UNCHANGED <<fetchVars, ctVars, shVars, emVars, ccVars>>

\* pto_sheet.update_cell(1, engineer_ic_index + 2, month_str);
\* headers.insert(engineer_ic_index + 1, month_str)
PtoUpdateCell ==
    /\ pto_pc = "update_cell"
    /\ pto_sheet' = UpdateCell(pto_sheet, 1, engineer_ic_index(pto_headers) + 2, month_str)
    /\ pto_headers' = ListInsert(pto_headers, engineer_ic_index(pto_headers) + 1, month_str)
    /\ pto_pc' = "dataframe"
    /\ UNCHANGED <<month_str, out_of_office_days, pto_data, pto_idx, pto_error, pto_runs,
                   pto_round>>
    /\ UNCHANGED <<fetchVars, ctVars, shVars, emVars, ccVars>>

\* pd.DataFrame(data[1:], columns=headers) takes rows as long as headers
DataFrameFits == \A r \in 2..Len(pto_data) : Len(pto_data[r]) = Len(pto_headers)

\* the column month_str of the dataframe after the first loop over the engineers: the
\* days of the last engineer whose mask has the row, or the text of the cell
MonthCell(r) ==
    LET matching == {i \in 1..Len(out_of_office_days) :
                        r \in Mask(pto_data, pto_headers, out_of_office_days[i].engineer)}
    IN  IF matching = {} THEN pto_data[r][ListIndex(pto_headers, month_str) + 1]
        ELSE CellText(out_of_office_days[CHOOSE i \in matching : \A j \in matching : j <= i].days)

\* dataframe[month_str].astype(int) converts every cell of the column
AsTypeInt == \A r \in 2..Len(pto_data) : IsIntText(MonthCell(r))

\* the DataFrame is built, the days are set in it and the column is made integer
PtoDataFrame ==
    /\ pto_pc = "dataframe"
    /\ HasEngineerColumn(pto_headers)
    /\ DataFrameFits
    /\ AsTypeInt
    /\ pto_idx' = 1
    /\ pto_pc' = "engineers"
    /\ UNCHANGED <<pto_sheet, month_str, out_of_office_days, pto_data, pto_headers, pto_error,
                   pto_runs, pto_round>>
    /\ UNCHANGED <<fetchVars, ctVars, shVars, emVars, ccVars>>

\* pd.DataFrame raises ValueError on rows shorter than headers (the column was inserted
\* after data was read), astype(int) raises ValueError on a text that is no integer
PtoDataFrameValueError ==
    /\ pto_pc = "dataframe"
    /\ HasEngineerColumn(pto_headers)
    /\ ~DataFrameFits \/ ~AsTypeInt
    /\ pto_error' = "ValueError"
    /\ pto_pc' = "failed"
    /\ UNCHANGED <<pto_sheet, month_str, out_of_office_days, pto_data, pto_headers, pto_idx,
                   pto_runs, pto_round>>
    /\ UNCHANGED <<fetchVars, ctVars, shVars, emVars, ccVars>>

\* one round of the second `for engineer, days in out_of_office_days.items()`: every row
\* of the mask gets backoff(pto_sheet.update_cell, (idx + 2, cell_col, days))
PtoEngineer ==
    /\ pto_pc = "engineers"
    /\ pto_idx <= Len(out_of_office_days)
    /\ LET item == out_of_office_days[pto_idx]
           cell_col == ListIndex(pto_headers, month_str) + 1
           after == UpdateCells(pto_sheet, Mask(pto_data, pto_headers, item.engineer),
                                cell_col, CellText(item.days))
       IN  /\ pto_sheet' = after
           /\ pto_round' = [engineer |-> item.engineer, month |-> month_str, days |-> item.days,
                            before |-> pto_sheet, after |-> after]
    /\ pto_idx' = pto_idx + 1
    /\ UNCHANGED <<pto_pc, month_str, out_of_office_days, pto_data, pto_headers, pto_error,
                   pto_runs>>
    /\ UNCHANGED <<fetchVars, ctVars, shVars, emVars, ccVars>>

\* out_of_office_days has no further item
PtoReturn ==
    /\ pto_pc = "engineers"
    /\ pto_idx > Len(out_of_office_days)
    /\ pto_pc' = "done"
    /\ UNCHANGED <<pto_sheet, month_str, out_of_office_days, pto_data, pto_headers, pto_idx,
                   pto_error, pto_runs, pto_round>>
    /\ UNCHANGED <<fetchVars, ctVars, shVars, emVars, ccVars>>

\* a store call raises APIError: get_all_values, insert_cols and the update_cell of the
\* header at once, an update_cell of the days after backoff has used its retries, the
\* rows of the mask before it written
PtoApiError ==
    /\ \/ /\ pto_pc \in {"get_all_values", "insert_cols", "update_cell"}
          /\ UNCHANGED pto_sheet
       \/ /\ pto_pc = "engineers"
          /\ pto_idx <= Len(out_of_office_days)
          /\ LET item == out_of_office_days[pto_idx]
                 rows == Mask(pto_data, pto_headers, item.engineer)
             IN  \E written \in 0..(Cardinality(rows) - 1) :
                    pto_sheet' = UpdateCells(pto_sheet, FirstRows(rows, written),
                                             ListIndex(pto_headers, month_str) + 1,
                                             CellText(item.days))
    /\ pto_error' = "APIError"
    /\ pto_pc' = "failed"
    /\ UNCHANGED <<month_str, out_of_office_days, pto_data, pto_headers, pto_idx, pto_runs,
                   pto_round>>
    /\ UNCHANGED <<fetchVars, ctVars, shVars, emVars, ccVars>>

\* the worksheets of the model: a header row with or without "Engineer - IC" and one
\* month, above the rows of two engineers whose names may differ in case only
PtoLedgers ==
    {<<<<anchor, "January 2024">>, <<"Alice", cell>>, <<second, cell>>>> :
        anchor \in {EngineerHeader, "Name"}, second \in {"alice", "Bob"}, cell \in {"", "3"}}

PtoIdle ==
    /\ pto_sheet = NoSheet
    /\ pto_pc = "idle"
    /\ month_str = "January 2024"
    /\ out_of_office_days = <<>>
    /\ pto_data = NoSheet
    /\ pto_headers = <<>>
    /\ pto_idx = 1
    /\ pto_error = "none"
    /\ pto_runs = 0
    /\ pto_round = NoRound

(***************************************************************************)
(* fetch_github_data and process_pull_request of github_to_gsheet.py.      *)
(***************************************************************************)
\* the logins of the authors, commenters and reviewers; "none" stands for nobody
Logins == {"alice", "bob", "carol"}

\* the values of username_map
FullNames == {"Alice", "Bob"}

\* username_map.get(login): the full name, or None ("") for a login that is not mapped
username_map(login) ==
    CASE login = "alice" -> "Alice"
      [] login = "bob" -> "Bob"
      [] OTHER -> ""

\* the pull requests of the model: additions + deletions, one comment at most and one
\* approving review at most
Pulls ==
    [author : Logins, lines : {1, 2}, commenter : {"none", "alice"},
     reviewer : {"none", "bob"}]

\* get_all_pr_comment_authors(pull).get(login, 0): comments of the author are left out
comment_authors(pull, login) ==
    IF pull.commenter = login /\ login # pull.author THEN 1 ELSE 0

\* get_all_pr_reviewers(pull).get(login, 0): reviews of the author are left out
review_authors(pull, login) ==
    IF pull.reviewer = login /\ login # pull.author THEN 1 ELSE 0

\* process_pull_request(pull, username_map): what the pull request adds for a full name
\* (a name that is no key of the result adds nothing)
process_pull_request(pull) ==
    [name \in FullNames |->
        [merges |-> IF username_map(pull.author) = name THEN 1 ELSE 0,
         reviews |-> SumSeq([k \in 1..2 |->
                        LET login == IF k = 1 THEN "alice" ELSE "bob"
                        IN  IF username_map(login) = name
                            THEN comment_authors(pull, login) + review_authors(pull, login)
                            ELSE 0]),
         changes |-> IF username_map(pull.author) = name THEN pull.lines ELSE 0]]

\* mutant: the merge is counted before the request that fails
GithubRateLimitedCounted ==
    /\ gh_pc = "try"
    /\ gh_idx <= Len(issues)
    /\ gh_failures < MaxRateLimits
    /\ gh_failures' = gh_failures + 1
    /\ merges' = [name \in FullNames |->
                    merges[name] + process_pull_request(issues[gh_idx])[name].merges]
    /\ \E remaining \in {0, 1} : gh_sleeps' = gh_sleeps + (IF remaining = 0 THEN 1 ELSE 0)
    /\ UNCHANGED <<issues, gh_pc, gh_idx, reviews, changes>>
    /\ UNCHANGED notGhVars

\* a request of the try block raises GithubException with status 403 before the totals
\* are touched: the handler reads the rate limit, sleeps when nothing remains, and the
\* while loop tries the pull request again
GithubRateLimited ==
    /\ gh_pc = "try"
    /\ gh_idx <= Len(issues)
    /\ gh_failures < MaxRateLimits
    /\ gh_failures' = gh_failures + 1
    /\ \E remaining \in {0, 1} : gh_sleeps' = gh_sleeps + (IF remaining = 0 THEN 1 ELSE 0)
    /\ UNCHANGED <<issues, gh_pc, gh_idx, merges, reviews, changes>>
    /\ UNCHANGED notGhVars

\* pull = issue.repository.get_pull(issue.number); data = process_pull_request(...);
\* the totals take the counts of data; break
GithubProcess ==
    /\ gh_pc = "try"
    /\ gh_idx <= Len(issues)
    /\ LET pr_counts == process_pull_request(issues[gh_idx])
       IN  /\ merges' = [name \in FullNames |-> merges[name] + pr_counts[name].merges]
           /\ reviews' = [name \in FullNames |-> reviews[name] + pr_counts[name].reviews]
           /\ changes' = [name \in FullNames |-> changes[name] + pr_counts[name].changes]
    /\ gh_idx' = gh_idx + 1
    /\ UNCHANGED <<issues, gh_pc, gh_failures, gh_sleeps>>
    /\ UNCHANGED notGhVars

\* a GithubException with another status: raise error
GithubRaise ==
    /\ gh_pc = "try"
    /\ gh_idx <= Len(issues)
    /\ gh_pc' = "failed"
    /\ UNCHANGED <<issues, gh_idx, merges, reviews, changes, gh_failures, gh_sleeps>>
    /\ UNCHANGED notGhVars

\* return merges, reviews, changes
GithubReturn ==
    /\ gh_pc = "try"
    /\ gh_idx > Len(issues)
    /\ gh_pc' = "done"
    /\ UNCHANGED <<issues, gh_idx, merges, reviews, changes, gh_failures, gh_sleeps>>
    /\ UNCHANGED notGhVars

NoTotals == [name \in FullNames |-> 0]

GithubIdle ==
    /\ issues = <<>>
    /\ gh_pc = "idle"
    /\ gh_idx = 1
    /\ merges = NoTotals
    /\ reviews = NoTotals
    /\ changes = NoTotals
    /\ gh_failures = 0
    /\ gh_sleeps = 0

\* the computations that fetch nothing are not running
RestIdle == CycleIdle /\ JobIdle /\ SheetIdle /\ MetricsIdle /\ PtoIdle /\ GithubIdle

(***************************************************************************)
(* SpecBackoff: backoff called on an arbitrary operation.                  *)
(***************************************************************************)
InitBackoff ==
    /\ bo_pc = "running"
    /\ bo_fn = "function"
    /\ max_retries \in (-1)..MaxRetriesBound
    /\ sleep_time \in 1..MaxSleepTime
    /\ exceptions \in {"Exception", "RequestException", "APIError"}
    /\ retry_count = 0
    /\ bo_value = 0
    /\ bo_error = "none"
    /\ invocations = 0
    /\ caught = 0
    /\ sleep_count = 0
    /\ last_sleep = NoSleep
    /\ last_failure = "none"
    /\ OffsetIdle
    /\ ZoomIdle
    /\ CursorIdle
    /\ RestIdle

NextBackoff ==
    \/ BackoffReturn
    \/ BackoffRetry
    \/ BackoffRaiseLast
    \/ BackoffPropagate
    \/ BackoffFallThrough

SpecBackoff == InitBackoff /\ [][NextBackoff]_vars

(***************************************************************************)
(* SpecOffset: one run of an offset-scheme fetcher against a Jira server.  *)
(***************************************************************************)
InitOffset ==
    /\ BackoffIdle
    /\ ZoomIdle
    /\ CursorIdle
    /\ RestIdle
    /\ job \in GetIssuesJobs \cup {"eng_metrics"}
    /\ credentials_set \in BOOLEAN
    /\ db \in Datasets
    /\ max_results \in 1..MaxPageSize
    /\ gi_pc = "start"
    /\ start_at = 0
    /\ all_issues = <<>>
    /\ count = 0
    /\ page = <<>>
    /\ detail_idx = 0
    /\ gi_result = <<>>
    /\ gi_error = "none"
    /\ page_sizes = <<>>
    /\ offsets = <<>>
    /\ failure_seen = FALSE

NextOffset ==
    \/ GetIssuesNoCredentials
    \/ GetIssueCountNoCredentials
    \/ GetIssuesBegin
    \/ GetIssuesRequest
    \/ GetIssuesPage
    \/ GetIssuesPageKeys
    \/ GetIssueWithChangelog
    \/ GetIssuesAppendDetails
    \/ GetIssuesPageEnd
    \/ GetIssuesValueError
    \/ GetIssuesRaise
    \/ GetIssueCountPage
    \/ GetIssueCountValueError
    \/ GetIssueCountRaise
    \/ BackoffReturn
    \/ BackoffRetry
    \/ BackoffRaiseLast
    \/ BackoffPropagate

SpecOffset == InitOffset /\ [][NextOffset]_vars

(***************************************************************************)
(* SpecToken: one run of get_zoom_meeting_data against a Zoom server.      *)
(***************************************************************************)
InitToken ==
    /\ BackoffIdle
    /\ OffsetIdle
    /\ CursorIdle
    /\ RestIdle
    /\ meeting_chain \in Chains
    /\ participant_chain \in Chains
    /\ zm_pc = "loop"
    /\ params_token = "absent"
    /\ participants_token = "absent"
    /\ meetings_data = NoPage
    /\ meeting_idx = 0
    /\ all_participants = <<>>
    /\ meeting_processed = 0
    /\ result = <<>>
    /\ m_sent = <<>>
    /\ m_received = <<>>
    /\ p_sent = <<>>
    /\ p_received = <<>>

NextToken ==
    \/ ZoomMeetingsRequest
    \/ ZoomMeetingsError
    \/ ZoomMeetingsPage
    \/ ZoomProcessMeeting
    \/ ZoomParticipantsRequest
    \/ ZoomParticipantsMissing
    \/ ZoomParticipantsPage
    \/ ZoomInfoRequest
    \/ ZoomInfo
    \/ ZoomMeetingsPageEnd
    \/ ZoomRaise
    \/ BackoffReturn
    \/ BackoffRetry
    \/ BackoffRaiseLast

SpecToken == InitToken /\ [][NextToken]_vars

(***************************************************************************)
(* SpecCursor: one run of get_pipelines against a Semaphore server.        *)
(***************************************************************************)
InitCursor ==
    /\ BackoffIdle
    /\ OffsetIdle
    /\ ZoomIdle
    /\ RestIdle
    /\ pipeline_chain \in PipelineChains
    /\ gp_pc = "loop"
    /\ pipelines_url = 1
    /\ pipelines = <<>>
    /\ gp_error = "none"
    /\ gp_log = <<>>
    /\ pauses = <<>>

NextCursor ==
    \/ GetPipelinesRateLimited
    \/ GetPipelinesPage
    \/ GetPipelinesErrorStatus
    \/ GetPipelinesSwallowed

SpecCursor == InitCursor /\ [][NextCursor]_vars

(***************************************************************************)
(* SpecCursorLive: get_pipelines with the loop going on: the process is    *)
(* scheduled, and every requests.get ends within its timeout of 60         *)
(* seconds, with a response or with a failure.                             *)
(***************************************************************************)
SpecCursorLive == InitCursor /\ [][NextCursor]_vars /\ WF_vars(NextCursor)

(***************************************************************************)
(* SpecGithub: fetch_github_data on the pull requests of a month.          *)
(***************************************************************************)
InitGithub ==
    /\ BackoffIdle
    /\ OffsetIdle
    /\ ZoomIdle
    /\ CursorIdle
    /\ CycleIdle
    /\ JobIdle
    /\ SheetIdle
    /\ MetricsIdle
    /\ PtoIdle
    /\ issues \in UNION {[1..n -> Pulls] : n \in 0..MaxPulls}
    /\ gh_pc = "try"
    /\ gh_idx = 1
    /\ merges = NoTotals
    /\ reviews = NoTotals
    /\ changes = NoTotals
    /\ gh_failures = 0
    /\ gh_sleeps = 0

NextGithub ==
    \/ GithubRateLimited
    \/ GithubProcess
    \/ GithubRaise
    \/ GithubReturn

SpecGithub == InitGithub /\ [][NextGithub]_vars

(***************************************************************************)
(* SpecProjects: get_projects is called again and again.                   *)
(***************************************************************************)
InitProjects ==
    /\ BackoffIdle
    /\ OffsetIdle
    /\ ZoomIdle
    /\ CursorIdle
    /\ RestIdle

NextProjects ==
    \/ GetProjectsCall
    \/ GetProjectsNot200
    \/ GetProjectsReturn
    \/ GetProjectsSwallowed

SpecProjects == InitProjects /\ [][NextProjects]_vars

(***************************************************************************)
(* SpecCycle: get_cycle_time called on an arbitrary issue.                 *)
(***************************************************************************)
FetchIdle == BackoffIdle /\ OffsetIdle /\ ZoomIdle /\ CursorIdle /\ GithubIdle

InitCycle ==
    /\ FetchIdle
    /\ JobIdle
    /\ SheetIdle
    /\ MetricsIdle
    /\ PtoIdle
    /\ issue \in Issues
    /\ start_stage \in {"Open", "In Progress", "Merged"}
    /\ end_stage \in {"Open", "In Progress", "Merged"}
    /\ ct_pc = "called"
    /\ start_time = 0
    /\ end_time = 0
    /\ history = {}
    /\ cycle_time = Days(0)
    /\ ct_error = "none"
    /\ changelog = HistoryRecords

NextCycle ==
    \/ GetCycleTimeBegin
    \/ GetCycleTimeRecord
    \/ GetCycleTimeUnknownStage
    \/ GetCycleTimeReturn

SpecCycle == InitCycle /\ [][NextCycle]_vars

(***************************************************************************)
(* SpecJob: main of jira_cycle_time_to_gsheet.py for one month, up to the  *)
(* call of update_google_sheets.                                           *)
(***************************************************************************)
InitJob ==
    /\ FetchIdle
    /\ SheetIdle
    /\ MetricsIdle
    /\ PtoIdle
    /\ issue = [created |-> Stamp(1, 0), resolved |-> FALSE, resolutiondate |-> Stamp(1, 0)]
    /\ start_stage = "Open"
    /\ end_stage = "Merged"
    /\ ct_pc = "idle"
    /\ start_time = 0
    /\ end_time = 0
    /\ history = {}
    /\ cycle_time = Days(0)
    /\ ct_error = "none"
    /\ changelog = JobHistoryRecords
    /\ cc_pc = "idle"
    /\ cycle_times = <<>>
    /\ average = Fraction(0, 1)
    /\ cc_error = "none"
    /\ mn_pc = "config"
    /\ mn_months \in 1..MaxMonths
    /\ mn_month = 1
    /\ mn_updates = {}
    /\ config_idx = 1
    /\ mn_data = <<>>
    /\ mn_error = "none"

NextJob ==
    \/ MainConfig
    \/ CalculateNextIssue
    \/ GetCycleTimeBegin
    \/ GetCycleTimeRecord
    \/ GetCycleTimeUnknownStage
    \/ GetCycleTimeReturn
    \/ CalculateCollect
    \/ CalculatePropagate
    \/ CalculateReturn
    \/ MainAppend
    \/ MainCrash
    \/ MainUpdate
    \/ MainNextMonth
    \/ MainUpdateRaises

SpecJob == InitJob /\ [][NextJob]_vars

(***************************************************************************)
(* SpecSheet: one process calls update_google_sheets again and again.      *)
(***************************************************************************)
InitSheet ==
    /\ FetchIdle
    /\ CycleIdle
    /\ JobIdle
    /\ MetricsIdle
    /\ PtoIdle
    /\ sheet \in Ledgers
    /\ sh_job \in SheetJobs
    /\ sh_pc = [w \in Writers |-> "idle"]
    /\ sh_month = [w \in Writers |-> "January 2024"]
    /\ headers = [w \in Writers |-> <<>>]
    /\ column = [w \in Writers |-> 1]
    /\ data = [w \in Writers |-> NoSheet]
    /\ sh_rows = [w \in Writers |-> 0]
    /\ sh_inserted = [w \in Writers |-> FALSE]
    /\ header_reads = [w \in Writers |-> 0]
    /\ user_row_index = [w \in Writers |-> 1]
    /\ sh_calls = 0
    /\ upserts = <<>>

NextSheet ==
    \E w \in {1} :
        \/ \E month \in MonthLabels : SheetCall(w, month)
        \/ SheetRowValues(w)
        \/ SheetInsertCols(w)
        \/ SheetUpdate(w)
        \/ SheetGetAllValues(w)
        \/ \E label \in RowLabels, value \in CellValues : SheetRow(w, label, value)
        \/ SheetReturn(w)
        \/ SheetApiError(w)

SpecSheet == InitSheet /\ [][NextSheet]_vars

(***************************************************************************)
(* SpecZoomSheet: one run of the Zoom job writes the cells of one month    *)
(* into one worksheet, one call of update_google_sheet per engineer.       *)
(***************************************************************************)
InitZoomSheet ==
    /\ FetchIdle
    /\ CycleIdle
    /\ JobIdle
    /\ MetricsIdle
    /\ PtoIdle
    /\ sheet \in Ledgers
    /\ sh_job = "zoom"
    /\ sh_pc = [w \in Writers |-> "idle"]
    /\ sh_month \in {[w \in Writers |-> month] : month \in MonthLabels}
    /\ headers = [w \in Writers |-> <<>>]
    /\ column = [w \in Writers |-> 1]
    /\ data = [w \in Writers |-> NoSheet]
    /\ sh_rows = [w \in Writers |-> 0]
    /\ sh_inserted = [w \in Writers |-> FALSE]
    /\ header_reads = [w \in Writers |-> 0]
    /\ user_row_index = [w \in Writers |-> 1]
    /\ sh_calls = 0
    /\ upserts = <<>>

NextZoomSheet ==
    \E w \in {1} :
        \/ ZoomUpdateGoogleSheet(w)
        \/ ZoomGetMonthIndexCall(w)
        \/ BackoffReturn
        \/ BackoffRetry
        \/ BackoffRaiseLast
        \/ ZoomGetMonthIndexReturned(w)
        \/ ZoomGetMonthIndexRaised(w)
        \/ \E full_name \in RowLabels : ZoomGetUserRowIndex(w, full_name)
        \/ \E value \in CellValues : ZoomUpdateCell(w, value)
        \/ ZoomSheetError(w)

SpecZoomSheet == InitZoomSheet /\ [][NextZoomSheet]_vars

(***************************************************************************)
(* SpecRace: two runs of a job, each calling update_google_sheets once on  *)
(* the same worksheet; the store serialises the requests, nothing else     *)
(* orders them.                                                            *)
(***************************************************************************)
\* one run calls update_google_sheets for its month
RaceCall(w, month) ==
    /\ sh_pc[w] = "idle"
    /\ SheetCall(w, month)

\* the dataframe of a run has one row
RaceRow(w, label, value) ==
    /\ sh_rows[w] = 0
    /\ SheetRow(w, label, value)

\* the worksheets of the two runs: both rows labelled and filled
RaceLedgers == {ws \in Ledgers : ws[2] = <<"Alice", "3">>}

InitRace ==
    /\ InitSheet
    /\ sheet \in RaceLedgers

NextRace ==
    \E w \in Writers :
        \/ \E month \in MonthLabels : RaceCall(w, month)
        \/ SheetRowValues(w)
        \/ SheetInsertCols(w)
        \/ SheetUpdate(w)
        \/ SheetGetAllValues(w)
        \/ \E label \in RowLabels, value \in CellValues : RaceRow(w, label, value)
        \/ SheetReturn(w)
        \/ SheetApiError(w)

SpecRace == InitRace /\ [][NextRace]_vars

(***************************************************************************)
(* SpecMetrics: fetch_and_update_metrics is run again and again.           *)
(***************************************************************************)
InitMetrics ==
    /\ FetchIdle
    /\ CycleIdle
    /\ JobIdle
    /\ SheetIdle
    /\ PtoIdle
    /\ worksheet \in DataSheets
    /\ em_pc = "idle"
    /\ em_month = "2024-01"
    /\ all_months = <<>>
    /\ month_column = 1
    /\ em_metric = 1
    /\ em_runs = <<>>

NextMetrics ==
    \/ \E month \in MonthArgs : MetricsCall(month)
    \/ MetricsRange
    \/ MetricsMonth
    \/ MetricsMetric
    \/ MetricsReturn
    \/ MetricsApiError

SpecMetrics == InitMetrics /\ [][NextMetrics]_vars

(***************************************************************************)
(* SpecPto: update_pto_sheet is run again and again.                       *)
(***************************************************************************)
InitPto ==
    /\ FetchIdle
    /\ CycleIdle
    /\ JobIdle
    /\ SheetIdle
    /\ MetricsIdle
    /\ pto_sheet \in PtoLedgers
    /\ pto_pc = "idle"
    /\ month_str = "January 2024"
    /\ out_of_office_days = <<>>
    /\ pto_data = NoSheet
    /\ pto_headers = <<>>
    /\ pto_idx = 1
    /\ pto_error = "none"
    /\ pto_runs = 0
    /\ pto_round = NoRound

NextPto ==
    \/ \E month \in MonthArgs, days \in OutOfOfficeDays : PtoCall(month, days)
    \/ PtoGetAllValues
    \/ PtoNoEngineerColumn
    \/ PtoInsertCols
    \/ PtoUpdateCell
    \/ PtoDataFrame
    \/ PtoDataFrameValueError
    \/ PtoEngineer
    \/ PtoReturn
    \/ PtoApiError

SpecPto == InitPto /\ [][NextPto]_vars

(***************************************************************************)
(* Claims about backoff (SpecBackoff).                                     *)
(***************************************************************************)
\* C1: with max_retries >= 1, while every invocation so far has failed with a caught
\* failure, backoff has invoked the function at most max_retries times, has slept once
\* per failure but the last, and it has raised exactly when the max_retries-th
\* invocation has failed: then it raises that failure and takes no further step.
C1_RetryBudget ==
    (max_retries >= 1 /\ caught = invocations) =>
        /\ invocations <= max_retries
        /\ bo_pc \in {"running", "raised"}
        /\ (bo_pc = "raised") <=> (invocations = max_retries)
        /\ bo_pc = "running" => sleep_count = invocations
        /\ bo_pc = "raised" =>
            /\ sleep_count = max_retries - 1
            /\ bo_error = last_failure
            /\ ~ENABLED NextBackoff

C1_Witness ==
    /\ max_retries = MaxRetriesBound
    /\ bo_pc = "raised"
    /\ caught = max_retries
    /\ invocations = max_retries

\* C2: a failure the except clause does not match leaves backoff in the very invocation
\* that raised it, with no sleep for it and no later invocation; when it is the first
\* invocation that fails so, backoff ends after one invocation and zero sleeps.
C2_NonMatchablePropagates ==
    (last_failure # "none" /\ ~(exceptions \in Ancestors(last_failure))) =>
        /\ bo_pc = "raised"
        /\ bo_error = last_failure
        /\ invocations = caught + 1
        /\ sleep_count = caught
        /\ (caught = 0 => (invocations = 1 /\ sleep_count = 0))
        /\ ~ENABLED NextBackoff

C2_Witness ==
    /\ max_retries = MaxRetriesBound
    /\ exceptions = "RequestException"
    /\ bo_pc = "raised"
    /\ bo_error = "ValueError"
    /\ invocations = 1
    /\ sleep_count = 0

(***************************************************************************)
(* Claims about the offset-scheme fetchers (SpecOffset).                   *)
(***************************************************************************)

\* the fetcher returned normally and no request of it failed for good
FetchedAll == gi_pc = "done" /\ credentials_set /\ ~failure_seen

C9_FailureSurfaced == failure_seen => gi_pc = "failed"

(***************************************************************************)
(* Claims about the token-scheme fetcher (SpecToken).                      *)
(***************************************************************************)
\* the first request carries no token, every later one the token of the response before
\* it, and a request follows a response only when that response's token is non-empty
TokensCarried(sent, received) ==
    /\ Len(received) <= Len(sent)
    /\ Len(sent) <= Len(received) + 1
    /\ Len(sent) >= 1 => sent[1] = "absent"
    /\ \A k \in 2..Len(sent) : k - 1 <= Len(received) => sent[k] = received[k - 1]
    /\ \A k \in 1..(Len(sent) - 1) : k <= Len(received) => received[k] \notin {"", "absent"}

\* the loop has ended on a page (not on an error response)
EndedOnPage(sent, received) ==
    /\ Len(received) >= 1
    /\ Len(sent) = Len(received)

\* C4 (as amended): in the meeting loop and in the participant loop every request carries
\* the continuation token of the previous response, and the loop stops at the first
\* response whose token is absent or empty, after taking that response's records too:
\* against an API whose responses carry the tokens "a", "b", "" it takes three pages
\* (three requests) and then stops.
C4_TokenSchemeStops ==
    /\ TokensCarried(m_sent, m_received)
    /\ TokensCarried(p_sent, p_received)
    /\ (zm_pc = "done" /\ EndedOnPage(m_sent, m_received)) =>
            /\ m_received[Len(m_received)] \in {"", "absent"}
            /\ meeting_processed = Len(m_received)
    /\ (zm_pc \in {"info", "info_wait"} /\ EndedOnPage(p_sent, p_received)) =>
            /\ p_received[Len(p_received)] \in {"", "absent"}
            /\ Len(all_participants) = Len(p_received)
    /\ (zm_pc = "done" /\ EndedOnPage(m_sent, m_received) /\ meeting_chain = Chain(3, "")) =>
            /\ m_sent = <<"absent", "a", "b">>
            /\ m_received = <<"a", "b", "">>
    /\ (zm_pc = "info" /\ EndedOnPage(p_sent, p_received) /\ participant_chain = Chain(3, "")) =>
            /\ p_sent = <<"absent", "a", "b">>
            /\ all_participants = <<1, 2, 3>>

C4_Witness ==
    /\ zm_pc = "done"
    /\ meeting_chain = Chain(3, "")
    /\ participant_chain = Chain(3, "")
    /\ m_sent = <<"absent", "a", "b">>
    /\ m_received = <<"a", "b", "">>
    /\ meeting_processed = 3
    /\ p_sent = <<"absent", "a", "b">>
    /\ Len(result) = 3

\* C4 as stated: against an API whose responses carry the tokens "a", "b", "" the
\* meeting loop takes two pages and then stops.
C4_TwoPagesThenStops ==
    (zm_pc = "done" /\ EndedOnPage(m_sent, m_received) /\ meeting_chain = Chain(3, "")) =>
        /\ Len(m_received) = 2
        /\ meeting_processed = 2

(***************************************************************************)
(* C10: rate limiting in get_pipelines.                                    *)
(***************************************************************************)
RECURSIVE RecordsOf(_)
\* the records of the responses of a log, in order
RecordsOf(log) ==
    IF log = <<>> THEN <<>> ELSE log[1].records \o RecordsOf(Tail(log))

IsAnswer(entry) == entry.status # 429

RECURSIVE SuggestedPauses(_)
\* per 429 response of a log: the seconds its Retry-After names, 1 when it has none
SuggestedPauses(log) ==
    IF log = <<>> THEN <<>>
    ELSE (IF log[1].status = 429
          THEN <<IF log[1].retry_after = "absent" THEN 1
                 ELSE CHOOSE n \in 0..MaxRetryAfter : ToString(n) = log[1].retry_after>>
          ELSE <<>>) \o SuggestedPauses(Tail(log))

RECURSIVE WalkRecords(_)
\* what a run without any 429 returns from `url` on, while every link is followed cleanly
WalkRecords(url) ==
    IF url \notin DOMAIN pipeline_chain THEN <<>>
    ELSE LET matches == NextMatches(pipeline_chain[url].link.links)
         IN  pipeline_chain[url].records
                \o (IF matches # <<>> THEN WalkRecords(matches[1]) ELSE <<>>)

\* C10: in get_pipelines every 429 response makes the fetcher sleep for the seconds of
\* its Retry-After header (1 when the header is absent), adds no record to the result,
\* and is followed by a request of the same URL; a run that ends after only 200 and
\* 429 responses returns exactly the records of the run without any 429.
C10_RateLimitPause ==
    /\ pauses = SuggestedPauses(gp_log)
    /\ pipelines = RecordsOf(SelectSeq(gp_log, IsAnswer))
    /\ \A k \in 1..Len(gp_log) :
        gp_log[k].status = 429 =>
            IF k < Len(gp_log)
            THEN gp_log[k + 1].url = gp_log[k].url
            ELSE pipelines_url = gp_log[k].url /\ gp_pc \in {"idle", "loop", "returned_none"}
    /\ (gp_pc = "done" /\ \A k \in 1..Len(gp_log) : gp_log[k].status \in {200, 429})
        => pipelines = WalkRecords(1)

\* a finished three-page run that was rate limited before the first page and between
\* pages, once without Retry-After and once with "2"
C10_Witness ==
    /\ gp_pc = "done"
    /\ pipelines = <<1, 2, 3>>
    /\ Len(gp_log) = 5
    /\ gp_log[1].status = 429 /\ gp_log[1].retry_after = "absent"
    /\ gp_log[3].status = 429 /\ gp_log[3].retry_after = "2"
    /\ pauses = <<1, 2>>

(***************************************************************************)
(* C5: the cycle time of an issue.                                         *)
(***************************************************************************)
\* the timestamps, in seconds, of the status changes gone through whose stage satisfies P
TransitionTimes(P(_)) ==
    {Strptime(record.created) : record \in
        {r \in history : r.has_items /\ \E k \in 1..Len(r.items) :
            r.items[k].field = "status" /\ P(r.items[k].toString)}}

SetMax(S) == CHOOSE x \in S : \A y \in S : y <= x

SetMin(S) == CHOOSE x \in S : \A y \in S : x <= y

\* S of the claim: the latest of the creation and the transitions at or before start_stage
StartBoundary ==
    SetMax({Strptime(issue.created)}
           \cup TransitionTimes(LAMBDA stage : StageIndex(stage) <= StageIndex(start_stage)))

\* E of the claim: the earliest of the resolution and the transitions at or after end_stage
EndBoundary ==
    SetMin({Strptime(issue.resolutiondate)}
           \cup TransitionTimes(LAMBDA stage : StageIndex(stage) >= StageIndex(end_stage)))

\* created 01-01, In Progress 01-05, Open 01-10, Merged 01-20, resolved 01-25, Open to Merged
BoundaryExample ==
    /\ issue = [created |-> Stamp(1, 0), resolved |-> TRUE, resolutiondate |-> Stamp(25, 0)]
    /\ start_stage = "Open"
    /\ end_stage = "Merged"
    /\ history =
        {[created |-> Stamp(5, 0), has_items |-> TRUE,
          items |-> <<Item("assignee", "Open"), Item("status", "In Progress")>>],
         [created |-> Stamp(10, 0), has_items |-> TRUE,
          items |-> <<Item("assignee", "Open"), Item("status", "Open")>>],
         [created |-> Stamp(20, 0), has_items |-> TRUE,
          items |-> <<Item("assignee", "Open"), Item("status", "Merged")>>]}

\* C5: for every timeline and every pair of stages the value get_cycle_time returns is
\* (E - S) / 86400 days, S the latest of the creation and the transitions into a stage at
\* or before start_stage, E the earliest of the resolution and the transitions into a
\* stage at or after end_stage; the boundary example returns 10 days.
C5_CycleTimeFormula ==
    ct_pc = "returned" =>
        /\ cycle_time.den > 0
        /\ cycle_time.num * SecondsPerDay = (EndBoundary - StartBoundary) * cycle_time.den
        /\ BoundaryExample => cycle_time = [num |-> 10, den |-> 1]

\* the boundary example has been computed
C5_Witness == ct_pc = "returned" /\ BoundaryExample /\ cycle_time = [num |-> 10, den |-> 1]

(***************************************************************************)
(* C6, C7: update_google_sheets called repeatedly.                         *)
(***************************************************************************)
\* the number of places of a sequence that hold x
Count(seq, x) == Cardinality({i \in 1..Len(seq) : seq[i] = x})

\* the first cell of every row
LabelColumn(ws) == [r \in 1..Len(ws) |-> ws[r][1]]

\* the last two rounds of the row loop were for the same row label and period, one right
\* after the other (in one call or in two calls in sequence), on a worksheet that had
\* exactly one row with that label
UpsertedTwice ==
    /\ Len(upserts) = 2
    /\ upserts[1].label = upserts[2].label
    /\ upserts[1].month = upserts[2].month
    /\ upserts[2].call - upserts[1].call \in {0, 1}
    /\ Count(LabelColumn(upserts[1].before), upserts[1].label) = 1

\* C6: two upserts in sequence for the same (row label, period label) with values v1
\* then v2 leave exactly one column with the period label, exactly one row with the row
\* label and v2 in the cell; with v1 = v2 the worksheet is the one after the first.
C6_UpsertTwiceOverwrites ==
    UpsertedTwice =>
        LET ledger == upserts[2].after
        IN  /\ Count(ledger[1], upserts[2].month) = 1
            /\ Count(LabelColumn(ledger), upserts[2].label) = 1
            /\ \A r \in 1..Len(ledger), c \in 1..Len(ledger[1]) :
                (ledger[r][1] = upserts[2].label /\ ledger[1][c] = upserts[2].month)
                    => ledger[r][c] = CellText(upserts[2].value)
            /\ upserts[1].value = upserts[2].value => ledger = upserts[1].after

\* C7: a call for a period label that the header row lacks creates exactly one column,
\* and that column carries the label; no label is in the header row more than once.
C7_NewColumnCarriesLabel ==
    /\ \A w \in Writers :
        (sh_pc[w] = "get_all_values" /\ sh_inserted[w]) =>
            /\ sheet[1][NewColumn] = sh_month[w]
            /\ Count(sheet[1], sh_month[w]) = 1
    /\ \A label \in MonthLabels : Count(sheet[1], label) <= 1

(***************************************************************************)
(* C8: fetch_and_update_metrics run twice for one month.                   *)
(***************************************************************************)
\* the columns that carry the label in one of the two rows the function uses for months
MonthColumns(ws, label) ==
    {c \in 1..Len(ws[1]) :
        \E r \in {MonthLabelRow, MonthLookupRow} : r <= Len(ws) /\ ws[r][c] = label}

\* C8: after two runs in sequence for the same month exactly one column is labelled
\* with that month.
C8_OneColumnPerMonth ==
    (/\ em_pc \in {"done", "failed"}
     /\ Len(em_runs) >= 2
     /\ em_runs[Len(em_runs)] = em_runs[Len(em_runs) - 1])
        => Cardinality(MonthColumns(worksheet, MonthFormatted(em_runs[Len(em_runs)]))) = 1

(***************************************************************************)
(* C11, C12: calculate_cycle_time (SpecJob).                               *)
(***************************************************************************)
\* the seconds that a number of days returned by get_cycle_time stands for
SecondsOf(days) == days.num * (SecondsPerDay \div days.den)

\* the seconds of every element of cycle_times
CollectedSeconds == [i \in 1..Len(cycle_times) |-> SecondsOf(cycle_times[i])]

\* `average` is the sum of the elements of cycle_times divided by their number
AverageIsMean ==
    /\ average.den > 0
    /\ average.num * SecondsPerDay * Len(cycle_times) = average.den * SumSeq(CollectedSeconds)

\* C11: when the end boundary of an issue is earlier than its start boundary,
\* get_cycle_time returns the negative difference (no clamping to 0), that value becomes
\* an element of cycle_times, and the mean calculate_cycle_time returns is taken over
\* the negative elements too.
C11_NegativeNotClamped ==
    /\ (ct_pc = "returned" /\ EndBoundary < StartBoundary) =>
        /\ cycle_time.num < 0
        /\ SecondsOf(cycle_time) = EndBoundary - StartBoundary
    /\ (cc_pc = "loop" /\ cycle_times # <<>>) => cycle_times[Len(cycle_times)] = cycle_time
    /\ cc_pc = "returned" => AverageIsMean

\* a mean below zero has been returned for two issues, one of them with a cycle time
\* below zero and one with a cycle time above zero
C11_Witness ==
    /\ cc_pc = "returned"
    /\ Len(cycle_times) = 2
    /\ \E i, j \in 1..2 : cycle_times[i].num < 0 /\ cycle_times[j].num > 0
    /\ average.num < 0

\* C12: calculate_cycle_time returns the sum of the cycle times of the issues divided by
\* the number of issues, and 0 when there is no issue.
C12_MeanOrZero ==
    cc_pc = "returned" =>
        /\ cycle_times # <<>> => AverageIsMean
        /\ cycle_times = <<>> => average = [num |-> 0, den |-> 1]

\* the mean of two different cycle times has been returned
C12_Witness ==
    /\ cc_pc = "returned"
    /\ Len(cycle_times) = 2
    /\ cycle_times[1] # cycle_times[2]
    /\ average.num # 0

\* the mean of no issue has been returned
C12_WitnessEmpty == cc_pc = "returned" /\ cycle_times = <<>> /\ average.num = 0

(***************************************************************************)
(* C13, C14: failures of get_cycle_time in a run of main (SpecJob).        *)
(***************************************************************************)
\* the loop of get_cycle_time has met a status change into a stage STAGE_ORDER lacks
MetUnknownStage ==
    \E r \in history : \E k \in 1..Len(StatusItems(r)) : ~Known(StatusItems(r)[k].toString)

\* a status change into a stage outside STAGE_ORDER is not skipped, its issue is not
\* dropped, and the failure goes up to the top of main
UnknownStageIsFatal ==
    /\ MetUnknownStage => (ct_pc = "failed" /\ ct_error = "ValueError")
    /\ (MetUnknownStage /\ cc_pc # "idle") =>
        /\ cc_pc \in {"issue", "failed"}
        /\ cc_pc = "failed" => cc_error = "ValueError"
    /\ (MetUnknownStage /\ mn_pc # "idle") =>
        /\ mn_pc \in {"calculating", "crashed"}
        /\ mn_pc = "crashed" => mn_error = "ValueError"
        /\ Len(mn_data) = config_idx - 1

\* C13 as stated: when an unknown stage ends the job, update_google_sheets has not been
\* called in that run for any month.
C13_NothingWrittenInRun ==
    UnknownStageIsFatal /\ (MetUnknownStage => mn_updates = {})

\* C13, amended: when an unknown stage ends the job, update_google_sheets has not been
\* called for the month in which it was met (it has been for every earlier month).
C13_NothingWrittenForMonth ==
    /\ UnknownStageIsFatal
    /\ MetUnknownStage => mn_updates = 1..(mn_month - 1)

\* the job has ended in its second month on an unknown stage met in the second issue of
\* the third config
C13_Witness ==
    /\ MetUnknownStage
    /\ mn_pc = "crashed"
    /\ mn_error = "ValueError"
    /\ mn_month = 2
    /\ mn_updates = {1}
    /\ config_idx = 3
    /\ Len(cycle_times) = 1

\* C14: an issue without resolutiondate does not make calculate_cycle_time fail.
C14_UnresolvedExcluded ==
    (cc_pc \in {"issue", "failed"} /\ ~issue.resolved) => ct_pc # "failed"

(***************************************************************************)
(* C15, C16, C20: the retry loop of backoff (SpecBackoff).                 *)
(***************************************************************************)
\* C15: when backoff has returned, the k-th invocation is the one that succeeded after
\* k - 1 caught failures: the value returned is that invocation's, the function has
\* been invoked exactly k times, backoff has slept exactly k - 1 times, and it takes no
\* further step.
C15_SuccessOnAttemptK ==
    bo_pc = "returned" =>
        /\ invocations \in 1..max_retries
        /\ bo_value = invocations
        /\ caught = invocations - 1
        /\ sleep_count = invocations - 1
        /\ bo_error = "none"
        /\ ~ENABLED NextBackoff

\* the third invocation has succeeded after two failures
C15_Witness ==
    /\ bo_pc = "returned"
    /\ invocations = 3
    /\ bo_value = 3
    /\ caught = 2
    /\ sleep_count = 2

\* C16: the sleep after the n-th caught failure is sleep_time * 2^(n-1) plus a jitter of
\* at least 0 and less than 1 (j / JitterSteps); it is twice the base of the sleep before
\* it, so it is never shorter than that base.
C16_DelayDoubles ==
    [][sleep_count' = sleep_count + 1 =>
        /\ sleep_count' = caught'
        /\ last_sleep'.base = sleep_time * (2 ^ (sleep_count' - 1))
        /\ last_sleep'.jitter \in 0..(JitterSteps - 1)
        /\ sleep_count >= 1 =>
            /\ last_sleep'.base = 2 * last_sleep.base
            /\ last_sleep'.base * JitterSteps + last_sleep'.jitter
                   >= last_sleep.base * JitterSteps]_vars

\* the third sleep, four times sleep_time and a jitter above zero
C16_Witness ==
    /\ sleep_count = 3
    /\ caught = 3
    /\ sleep_time = MaxSleepTime
    /\ last_sleep.base = 4 * sleep_time
    /\ last_sleep.jitter > 0

\* C20: when every invocation of the budget has failed with a failure the except clause
\* matches, backoff raises the failure of the last, max_retries-th, invocation.
C20_LastFailureSurfaced ==
    (bo_pc = "raised" /\ caught = max_retries) =>
        /\ invocations = max_retries
        /\ bo_error = last_failure
        /\ bo_error # "none"

\* three failed invocations, the last of them a ValueError, which is what backoff raised
C20_Witness ==
    /\ bo_pc = "raised"
    /\ max_retries = 3
    /\ caught = 3
    /\ exceptions = "Exception"
    /\ last_failure = "ValueError"
    /\ bo_error = "ValueError"

(***************************************************************************)
(* C17: a row of the dataframe whose label the worksheet lacks (SpecSheet). *)
(***************************************************************************)
\* the round of the row loop recorded in `u` was for a label no row of the worksheet had
LabelAbsent(u) == Count(LabelColumn(u.before), u.label) = 0

\* the round recorded in `u` put its value into one cell of a row that carries its label
\* and left every other cell and the number of rows as they were
WroteOneCell(u) ==
    \E r \in 1..Len(u.before) :
        /\ u.before[r][1] = u.label
        /\ \E c \in 1..(Len(u.before[r]) + 1) : u.after = UpdateCell(u.before, r, c, CellText(u.value))

\* C17: a round of the row loop for a label that no row carries writes no cell and adds
\* no row (the worksheet after it is the worksheet before it), and the round after it in
\* the same call, for a label a row carries, still writes its value.
C17_SkipLeavesSheet ==
    /\ \A i \in 1..Len(upserts) : LabelAbsent(upserts[i]) => upserts[i].after = upserts[i].before
    /\ (/\ Len(upserts) = 2
        /\ upserts[1].call = upserts[2].call
        /\ LabelAbsent(upserts[1])
        /\ ~LabelAbsent(upserts[2])) => WroteOneCell(upserts[2])

\* a call skipped the value for Alice, whom no row names, and then wrote the value for Bob
C17_Witness ==
    /\ Len(upserts) = 2
    /\ upserts[1].call = upserts[2].call
    /\ upserts[1].label = "Alice"
    /\ LabelAbsent(upserts[1])
    /\ upserts[2].label = "Bob"
    /\ upserts[2].after # upserts[2].before
    /\ sheet = upserts[2].after

(***************************************************************************)
(* C18: a metric whose label column B lacks (SpecMetrics).                 *)
(***************************************************************************)
\* the step is one round of the loop over the metrics
MetricRound == em_pc = "metric" /\ em_metric' = em_metric + 1

\* the rows of column B that carry the label
LabelRows(ws, label) == {r \in 1..Len(ws) : ws[r][MetricColumn] = label}

\* every cell the worksheet had before the step holds what it held, but for one
KeptBut(row, col) ==
    \A r \in 1..Len(worksheet) : \A c \in 1..Len(worksheet[r]) :
        (r # row \/ c # col) => worksheet'[r][c] = worksheet[r][c]

\* C18: a round for a metric whose label column B lacks adds exactly one row, below every
\* row the worksheet had, with the label in column B and the value in the column of the
\* month, and changes no other cell; a round for a metric whose label column B has adds
\* no row and writes the value in the row of the label; no label is ever in two rows.
C18_AppendPolicy ==
    /\ [](\A i \in 1..Len(METRICS_QUERIES) :
            Cardinality(LabelRows(worksheet, METRICS_QUERIES[i])) <= 1)
    /\ [][MetricRound =>
            LET metric == METRICS_QUERIES[em_metric]
                new == Len(worksheet) + 1
            IN  IF LabelRows(worksheet, metric) = {}
                THEN /\ Len(worksheet') = new
                     /\ LabelRows(worksheet', metric) = {new}
                     /\ \E v \in IssueCounts : worksheet'[new][month_column] = CellText(v)
                     /\ \A c \in 1..Len(worksheet'[new]) :
                            c \notin {MetricColumn, month_column} => worksheet'[new][c] = ""
                     /\ KeptBut(new, month_column)
                ELSE /\ Len(worksheet') = Len(worksheet)
                     /\ LabelRows(worksheet', metric) = LabelRows(worksheet, metric)
                     /\ \E r \in LabelRows(worksheet, metric) :
                            /\ \E v \in IssueCounts : worksheet'[r][month_column] = CellText(v)
                            /\ KeptBut(r, month_column)]_vars

\* two runs on a worksheet that had neither label: the first added a row for each metric,
\* the second wrote into these rows
C18_Witness ==
    /\ em_pc = "done"
    /\ Len(em_runs) = 2
    /\ Len(worksheet) = 5
    /\ worksheet[4][MetricColumn] = METRICS_QUERIES[1]
    /\ worksheet[5][MetricColumn] = METRICS_QUERIES[2]
    /\ worksheet[4][month_column] = "6"
    /\ worksheet[5][month_column] = "4"

(***************************************************************************)
(* C19: which cells one upsert writes (SpecPto, SpecSheet).                *)
(***************************************************************************)
\* the text of a cell, the empty text outside the rows and columns of the worksheet
Cell(ws, r, c) == IF r <= Len(ws) /\ c <= Len(ws[r]) THEN ws[r][c] ELSE ""

\* the widest row of a worksheet
Width(ws) == SetMax({Len(ws[r]) : r \in 1..Len(ws)})

\* the cells whose text differs between two worksheets
ChangedCells(before, after) ==
    {rc \in (1..Max(Len(before), Len(after))) \X (1..Max(Width(before), Width(after))) :
        Cell(before, rc[1], rc[2]) # Cell(after, rc[1], rc[2])}

\* names that differ in the case of their letters at most
SameLetters(a, b) == a = b \/ {a, b} = {"Alice", "alice"}

\* the column of the worksheet whose header is exactly `label`
ColumnOf(ws, label) == CHOOSE c \in 1..Len(ws[1]) : ws[1][c] = label

SheetRoundExact ==
    \A i \in 1..Len(upserts) :
        LET changed == ChangedCells(upserts[i].before, upserts[i].after)
        IN  /\ Cardinality(changed) <= 1
            /\ \A rc \in changed :
                /\ upserts[i].before[rc[1]][1] = upserts[i].label
                /\ upserts[i].before[1][rc[2]] = upserts[i].month

(***************************************************************************)
(* C21: status 429 answered to call_jira_api under backoff (SpecOffset).   *)
(***************************************************************************)
\* C21: an invocation of call_jira_api under backoff that is answered with status 429
\* does not use up an attempt of the retry budget, and the request goes on afterwards.
C21_RateLimitNotCounted ==
    [][(bo_fn = "call_jira_api" /\ caught' = caught + 1 /\ last_failure' = "HTTPError429") =>
            (retry_count' = retry_count /\ bo_pc' = "running")]_vars

(***************************************************************************)
(* C22: a page body that is no JSON (SpecOffset).                          *)
(***************************************************************************)
\* the failures of response.json()
MalformedKinds == {"JSONDecodeError", "ValueError"}

\* C22: a page request of get_issues whose body does not parse is not invoked again and
\* followed by no sleep (backoff raises in that very invocation), and get_issues ends in
\* that failure.
C22_MalformedNotRetried ==
    [][/\ (/\ gi_pc = "page_wait"
           /\ invocations' = invocations + 1
           /\ bo_pc' # "returned"
           /\ last_failure' \in MalformedKinds) =>
                (bo_pc' = "raised" /\ bo_error' = last_failure' /\ sleep_count' = sleep_count)
       /\ (/\ gi_pc = "page_wait"
           /\ bo_pc = "raised"
           /\ bo_error \in MalformedKinds
           /\ gi_pc' # gi_pc) =>
                (gi_pc' = "failed" /\ gi_error' = bo_error)]_vars

(***************************************************************************)
(* C23: transient failures of a page request (SpecOffset).                 *)
(***************************************************************************)
\* a connection that fails or times out, an error status
TransientKinds == {"ConnectionError", "HTTPError"}

\* C23: an offset-scheme fetcher ends in a transient failure only when backoff has raised
\* it after max_retries invocations of the request, all of them failed.
C23_TransientRetried ==
    [][(gi_pc' = "failed" /\ gi_pc # "failed" /\ gi_error' \in TransientKinds) =>
            /\ bo_pc = "raised"
            /\ max_retries = DefaultMaxRetries
            /\ invocations = max_retries
            /\ caught = max_retries]_vars

(***************************************************************************)
(* C24: get_issues without credentials (SpecOffset).                       *)
(***************************************************************************)
\* C24: without ATLASSIAN_API_TOKEN or ATLASSIAN_EMAIL get_issues ends in a failure; it
\* does not return normally with an empty list.
C24_MissingCredentialFatal ==
    (job \in GetIssuesJobs /\ ~credentials_set /\ gi_pc # "start") => gi_pc = "failed"

(***************************************************************************)
(* C25: the links get_pipelines follows (SpecCursor).                      *)
(***************************************************************************)
\* the positions of the links of a header that carry rel="next"
NextLinks(links) == {k \in 1..Len(links) : links[k].rel = "next"}

\* the step is the handling of a page answered with status 200
PageAnswered ==
    /\ gp_pc = "loop"
    /\ Len(gp_log') = Len(gp_log) + 1
    /\ gp_log'[Len(gp_log')].status = 200

\* C25: after a page whose link header has a next relation get_pipelines requests the
\* URL of that relation; after the first page without one it returns, and what it returns
\* after 200 and 429 responses only is every page of the server, in page order.
C25_FollowsNextLink ==
    /\ [][PageAnswered =>
            LET links == pipeline_chain[pipelines_url].link.links
            IN  IF NextLinks(links) # {}
                THEN /\ gp_pc' = "loop"
                     /\ pipelines_url' = links[CHOOSE k \in NextLinks(links) : TRUE].url
                ELSE gp_pc' = "done"]_vars
    /\ [](  (gp_pc = "done" /\ \A k \in 1..Len(gp_log) : gp_log[k].status \in {200, 429})
                => pipelines = [i \in 1..Len(pipeline_chain) |-> i])

(***************************************************************************)
(* C26: the offsets of the requests of an offset-scheme fetch (SpecOffset). *)
(***************************************************************************)
\* C26: the first request of an offset-scheme fetch carries offset 0, every later one
\* the number of records received in the pages before it, which is the offset before it
\* plus the page size asked for: the positions asked for follow each other with no gap
\* and no overlap.
C26_OffsetIsRecordsReceived ==
    /\ Len(offsets) \in {Len(page_sizes), Len(page_sizes) + 1}
    /\ Len(offsets) >= 1 => offsets[1] = 0
    /\ \A k \in 2..Len(offsets) :
        /\ offsets[k] = SumSeq(SubSeq(page_sizes, 1, k - 1))
        /\ offsets[k] = offsets[k - 1] + max_results
        /\ SubSeq(db, offsets[k - 1] + 1, offsets[k]) = SearchPage(db, offsets[k - 1], max_results)

\* the cycle-time job has asked for offsets 0, 2, 4 and 6 of seven records
C26_Witness ==
    /\ job = "jira_cycle_time"
    /\ gi_pc = "done"
    /\ max_results = 2
    /\ offsets = <<0, 2, 4, 6>>
    /\ page_sizes = <<2, 2, 2, 1>>
    /\ Len(gi_result) = 7

(***************************************************************************)
(* C27: the column update_google_sheets inserts for a new month (SpecSheet). *)
(***************************************************************************)
\* the step of writer w from one position of update_google_sheets to another
SheetStep(w, from, to) == sh_pc[w] = from /\ sh_pc'[w] = to

\* C27: insert_cols(2) shifts every cell from column 2 on, header and data alike, one
\* position to the right and leaves column 1 as it was; the update of the header row
\* then puts the new month at position 2 and changes no other cell.
C27_NewColumnAtTwo ==
    [][\A w \in Writers :
        /\ SheetStep(w, "insert_cols", "update") =>
            /\ Len(sheet') = Len(sheet)
            /\ \A r \in 1..Len(sheet) :
                /\ Cell(sheet', r, 1) = Cell(sheet, r, 1)
                /\ Cell(sheet', r, NewColumn) = ""
                /\ \A c \in NewColumn..Len(sheet[r]) : Cell(sheet', r, c + 1) = Cell(sheet, r, c)
        /\ SheetStep(w, "update", "get_all_values") =>
            /\ Cell(sheet', 1, NewColumn) = sh_month[w]
            /\ ChangedCells(sheet, sheet') \subseteq {<<1, NewColumn>>}]_vars

(***************************************************************************)
(* C28: the writes of one batch and a failure among them (SpecSheet).      *)
(***************************************************************************)
\* the round recorded in `u` changed no cell but one that now holds its value
OneUpdate(u) ==
    \/ u.after = u.before
    \/ \E r \in 1..Len(u.after) : \E c \in 1..Len(u.after[r]) :
        /\ u.after[r][c] = CellText(u.value)
        /\ ChangedCells(u.before, u.after) = {<<r, c>>}

\* C28: every round of the row loop sends one update_cell of its own, which changes one
\* cell at most; nothing else touches the worksheet between two rounds of a call; and
\* when a later update_cell of the call fails for good, the worksheet stays exactly as
\* the last round that wrote left it.
C28_PartialFailureIsolated ==
    /\ \A i \in 1..Len(upserts) : OneUpdate(upserts[i])
    /\ (Len(upserts) = 2 /\ upserts[1].call = upserts[2].call) =>
            upserts[2].before = upserts[1].after
    /\ \A w \in {1} :
        (sh_pc[w] = "failed" /\ sh_rows[w] >= 1) =>
            /\ upserts[Len(upserts)].call = sh_calls
            /\ sheet = upserts[Len(upserts)].after

\* the third write of a call has failed after two rounds that wrote the values of Alice
\* and of Bob, which the worksheet still holds
C28_Witness ==
    /\ sh_pc[1] = "failed"
    /\ sh_rows[1] = 2
    /\ Len(upserts) = 2
    /\ upserts[1].call = sh_calls
    /\ upserts[1].label = "Alice" /\ upserts[1].value = 5
    /\ upserts[2].label = "Bob" /\ upserts[2].value = 7
    /\ ChangedCells(upserts[1].before, sheet) = {<<2, 2>>, <<3, 2>>}
    /\ sheet[2][2] = "5"
    /\ sheet[3][2] = "7"

(***************************************************************************)
(* C29: two writers and one absent label (SpecRace).                       *)
(***************************************************************************)
\* the period labels that stand more than once in the header row
DuplicateLabels == {m \in MonthLabels : Count(sheet[1], m) >= 2}

\* C29: nothing orders the header read of one writer and the insert of the other, so
\* both may find the label absent and both insert a column.  A label stands twice in
\* the header row only then: each of the two writers read a header row without its
\* label and inserted a column, and the copy of the header row it wrote back holds the
\* doubled label once.
C29_DuplicateOnlyByRace ==
    DuplicateLabels # {} =>
        \A w \in Writers :
            /\ sh_inserted[w]
            /\ \A m \in DuplicateLabels : Count(headers[w], m) = 1

\* both writers read the header before either inserted, both inserted a column and both
\* returned: the header row holds the label twice
C29_Witness ==
    /\ \A w \in Writers : sh_pc[w] = "done" /\ sh_inserted[w] /\ sh_month[w] = "January 2024"
    /\ headers[1] = headers[2]
    /\ sheet[1] = <<"Type", "January 2024", "January 2024", "">>

(***************************************************************************)
(* C30: header reads of a run (SpecSheet, SpecZoomSheet).                  *)
(***************************************************************************)
\* C30: a run that has written a cell, or gone through a row of its batch, has sent
\* row_values(1) exactly once, however many cells it wrote.
C30_HeaderReadOnce ==
    \A w \in Writers :
        sh_rows[w] >= 1 => header_reads[w] = 1

(***************************************************************************)
(* C31: update_pto_sheet for a month without a column (SpecPto).           *)
(***************************************************************************)
\* this call has inserted the month's column: headers is one longer than the row read
PtoInserted == pto_pc \in {"dataframe", "engineers", "done", "failed"} /\
               Len(pto_headers) = Len(pto_data[1]) + 1

\* C31: a call of update_pto_sheet for a month without a column, which the store lets
\* through, puts the label right of "Engineer - IC" and ends with the days of every
\* engineer in the new column at the engineer's rows.
C31_NewMonthWrittenInCall ==
    (PtoInserted /\ pto_pc \in {"done", "failed"} /\ pto_error # "APIError") =>
        LET col == engineer_ic_index(pto_data[1]) + 2
        IN  /\ pto_pc = "done"
            /\ pto_sheet[1][col] = month_str
            /\ \A i \in 1..Len(out_of_office_days) :
                \A r \in Mask(pto_data, pto_headers, out_of_office_days[i].engineer) :
                    \E j \in i..Len(out_of_office_days) :
                        pto_sheet[r][col] = CellText(out_of_office_days[j].days)

(***************************************************************************)
(* C32: get_projects and a 429 response (SpecProjects).                    *)
(***************************************************************************)
\* get_projects receives a response with status 429
ProjectsRateLimited ==
    /\ gp_pc = "projects"
    /\ Len(gp_log') = Len(gp_log) + 1
    /\ gp_log'[Len(gp_log')].status = 429

\* C32: on a 429 response get_projects sleeps for the Retry-After duration, 1 second
\* without the header, and goes on to request the list again; it does not fail.
C32_ProjectsRateLimitPause ==
    [][ProjectsRateLimited =>
            /\ pauses' = Append(pauses, PauseFor(gp_log'[Len(gp_log')].retry_after))
            /\ gp_pc' = "projects"
            /\ gp_error' = "none"]_vars

(***************************************************************************)
(* C33: the column update_google_sheets writes into (SpecSheet).           *)
(***************************************************************************)
\* C33: the column that update_google_sheets computes for the period is never the
\* column of the row labels, whatever the header row holds, and no round of the row
\* loop changes a row label.
C33_ColumnNotLabelColumn ==
    /\ \A w \in Writers : sh_pc[w] = "rows" => column[w] >= NewColumn
    /\ \A i \in 1..Len(upserts) :
        LabelColumn(upserts[i].after) = LabelColumn(upserts[i].before)

(***************************************************************************)
(* C34: the totals of fetch_github_data (SpecGithub).                      *)
(***************************************************************************)
\* what the pull requests 1..n add to the total `field` of a full name, each once
TotalOf(field, name, n) ==
    SumSeq([k \in 1..n |->
        LET pr_counts == process_pull_request(issues[k])[name]
        IN  CASE field = "merges" -> pr_counts.merges
              [] field = "reviews" -> pr_counts.reviews
              [] OTHER -> pr_counts.changes])

\* C34: the totals hold the counts of every pull request gone through exactly once,
\* however many 403 failures were caught on the way; when fetch_github_data returns
\* that is every pull request the search found.
C34_EachPullCountedOnce ==
    /\ \A name \in FullNames :
        /\ merges[name] = TotalOf("merges", name, gh_idx - 1)
        /\ reviews[name] = TotalOf("reviews", name, gh_idx - 1)
        /\ changes[name] = TotalOf("changes", name, gh_idx - 1)
    /\ gh_pc = "done" => gh_idx = Len(issues) + 1

\* two pull requests of alice, the second reviewed by bob, counted after two 403
\* failures and one sleep
C34_Witness ==
    /\ gh_pc = "done"
    /\ Len(issues) = 2
    /\ gh_failures = 2
    /\ gh_sleeps = 1
    /\ merges = [name \in FullNames |-> IF name = "Alice" THEN 2 ELSE 0]
    /\ reviews = [name \in FullNames |-> IF name = "Bob" THEN 1 ELSE 0]
    /\ changes = [name \in FullNames |-> IF name = "Alice" THEN 3 ELSE 0]

(***************************************************************************)
(* C35: get_cycle_time and the order of the history (SpecCycle).           *)
(***************************************************************************)
RECURSIVE Orderings(_)
\* the orders in which the records of a set can stand in changelog.histories
Orderings(S) ==
    IF S = {} THEN {<<>>}
    ELSE UNION {{<<first>> \o rest : rest \in Orderings(S \ {first})} : first \in S}

RECURSIVE StartOver(_, _)
\* start_time after `for record in history` over the records in the order given
StartOver(time, records) ==
    IF records = <<>> THEN time
    ELSE StartOver(StartAfter(time, StatusItems(records[1]), Strptime(records[1].created)),
                   Tail(records))

RECURSIVE EndOver(_, _)
\* end_time after `for record in history` over the records in the order given
EndOver(time, records) ==
    IF records = <<>> THEN time
    ELSE EndOver(EndAfter(time, StatusItems(records[1]), Strptime(records[1].created)),
                 Tail(records))

\* a record with a status that STAGE_ORDER lacks
HasUnknownStage(record) ==
    \E k \in 1..Len(StatusItems(record)) : ~Known(StatusItems(record)[k].toString)

\* C35: whatever the order in which get_cycle_time met the records of the history, the
\* loop over any other order of the same records ends with the same start_time and
\* end_time, and the value returned is the one of every order; a call that failed on an
\* unknown stage fails in every order, the stage being in the history.
C35_OrderIndependent ==
    /\ ct_pc \in {"loop", "returned"} =>
        \A order \in Orderings(history) :
            LET start == StartOver(Strptime(issue.created), order)
                end == EndOver(Strptime(issue.resolutiondate), order)
            IN  /\ start = start_time
                /\ end = end_time
                /\ ct_pc = "returned" => cycle_time = Days(end - start)
    /\ (ct_pc = "failed" /\ ct_error = "ValueError") =>
        \E record \in history : HasUnknownStage(record)

\* Open on 01-05, In Progress on 01-10 and Merged on 01-20 have been met in some order
\* and 10 days returned for In Progress to Merged
C35_Witness ==
    /\ ct_pc = "returned"
    /\ issue = [created |-> Stamp(1, 0), resolved |-> TRUE, resolutiondate |-> Stamp(25, 0)]
    /\ start_stage = "In Progress"
    /\ end_stage = "Merged"
    /\ history =
        {[created |-> Stamp(5, 0), has_items |-> TRUE,
          items |-> <<Item("assignee", "Open"), Item("status", "Open")>>],
         [created |-> Stamp(10, 0), has_items |-> TRUE,
          items |-> <<Item("assignee", "Open"), Item("status", "In Progress")>>],
         [created |-> Stamp(20, 0), has_items |-> TRUE,
          items |-> <<Item("assignee", "Open"), Item("status", "Merged")>>]}
    /\ start_time = Strptime(Stamp(10, 0))
    /\ cycle_time = [num |-> 10, den |-> 1]

(***************************************************************************)
(* C36: the boundaries stay within creation and resolution (SpecCycle).    *)
(***************************************************************************)
\* C36: at every point of the loop start_time is not before the creation and end_time
\* not after the resolution, and the value returned is not more than the days from the
\* creation to the resolution.
C36_WithinCreationAndResolution ==
    ct_pc \in {"loop", "returned"} =>
        /\ start_time >= Strptime(issue.created)
        /\ end_time <= Strptime(issue.resolutiondate)
        /\ ct_pc = "returned" =>
            /\ cycle_time.den > 0
            /\ cycle_time.num * SecondsPerDay <=
                (Strptime(issue.resolutiondate) - Strptime(issue.created)) * cycle_time.den

\* an issue created on 01-10 and resolved on 01-10, with a transition into Open on 01-05
\* and one into Merged on 01-20: both boundaries stay at 01-10 and 0 days are returned
C36_Witness ==
    /\ ct_pc = "returned"
    /\ issue = [created |-> Stamp(10, 0), resolved |-> TRUE, resolutiondate |-> Stamp(10, 0)]
    /\ start_stage = "Open"
    /\ end_stage = "Merged"
    /\ history =
        {[created |-> Stamp(5, 0), has_items |-> TRUE,
          items |-> <<Item("assignee", "Open"), Item("status", "Open")>>],
         [created |-> Stamp(20, 0), has_items |-> TRUE,
          items |-> <<Item("assignee", "Open"), Item("status", "Merged")>>]}
    /\ start_time = Strptime(Stamp(10, 0))
    /\ end_time = Strptime(Stamp(10, 0))
    /\ cycle_time = [num |-> 0, den |-> 1]

(***************************************************************************)
(* C37: a total that is a multiple of the page size (SpecOffset).          *)
(***************************************************************************)
\* the number of records is a multiple of the page size, and not zero
ExactMultiple == Len(db) > 0 /\ Len(db) % max_results = 0

\* C37: an offset-scheme fetch that ends normally has sent floor(total / page size) + 1
\* page requests; when the total is a non-zero multiple of the page size the last of them
\* asked for the position after the last record and received an empty page, and all
\* records are returned.
C37_ExactMultipleExtraRequest ==
    FetchedAll =>
        /\ Len(offsets) = (Len(db) \div max_results) + 1
        /\ ExactMultiple =>
            /\ page_sizes[Len(page_sizes)] = 0
            /\ offsets[Len(offsets)] = Len(db)
            /\ \A i \in 1..(Len(page_sizes) - 1) : page_sizes[i] = max_results
            /\ job \in GetIssuesJobs => Len(gi_result) = Len(db)
            /\ job = "eng_metrics" => count = Len(db)

\* get_issue_count on 6 records with page size 2: requests at 0, 2, 4 and 6, the last
\* page empty
C37_Witness ==
    /\ FetchedAll
    /\ job = "eng_metrics"
    /\ max_results = 2
    /\ Len(db) = 6
    /\ offsets = <<0, 2, 4, 6>>
    /\ page_sizes = <<2, 2, 2, 0>>
    /\ count = 6

MonthAbsent == \A i \in 1..Len(get_row_values(sheet, 1)) : get_row_values(sheet, 1)[i] # sh_month[1]

\* the lookup of the month's column is under way
InMonthLookup == sh_job = "zoom" /\ sh_pc[1] \in {"month_index", "month_index_wait"}

\* C39: the lookup of the month's column changes nothing in the worksheet; it runs under
\* backoff with a budget of 15 attempts that catch every Exception, each failed attempt
\* but the last followed by a sleep; without the label in the header row the lookup
\* never returns an index: the call ends after exactly 15 attempts and 14 sleeps with
\* the failure of the last attempt, and nothing was inserted or written.
C39_AbsentMonthFailsAfterFifteen ==
    [][InMonthLookup =>
        /\ sheet' = sheet
        /\ sh_rows' = sh_rows
        /\ bo_pc = "running" => (max_retries = 15 /\ exceptions = "Exception")
        /\ (bo_pc = "running" /\ bo_pc' = "running") =>
                (invocations' = invocations + 1 /\ sleep_count' = sleep_count + 1)
        /\ (MonthAbsent /\ sh_pc[1] = "month_index_wait") =>
            /\ bo_pc' # "returned"
            /\ sh_pc'[1] # sh_pc[1] =>
                /\ sh_pc'[1] = "failed"
                /\ bo_pc = "raised"
                /\ bo_error = last_failure
                /\ invocations = 15
                /\ caught = 15
                /\ sleep_count = 14
                /\ header_reads'[1] = header_reads[1] + 15]_vars

\* the fifteenth lookup of a month that the header row lacks has raised ValueError, after
\* fourteen sleeps, and no cell has been written
C39_Witness ==
    /\ sh_job = "zoom"
    /\ sh_pc[1] = "month_index_wait"
    /\ MonthAbsent
    /\ bo_pc = "raised"
    /\ bo_error = "ValueError"
    /\ invocations = 15
    /\ sleep_count = 14
    /\ sh_rows[1] = 0
    /\ sheet \in Ledgers

(***************************************************************************)
(* backoff with an empty retry budget (SpecBackoff).                       *)
(***************************************************************************)
\* C40: with max_retries <= 0 backoff never invokes the function and never sleeps; the
\* call is either still at its entry, where falling through is its one possible step,
\* or it has returned None, with no failure raised, and takes no further step.
C40_EmptyBudgetReturnsNone ==
    (bo_fn = "function" /\ max_retries <= 0) =>
        /\ invocations = 0
        /\ caught = 0
        /\ sleep_count = 0
        /\ last_sleep = NoSleep
        /\ bo_error = "none"
        /\ bo_pc \in {"running", "returned_none"}
        /\ bo_pc = "running" => ENABLED BackoffFallThrough
        /\ bo_pc = "returned_none" => ~ENABLED NextBackoff

C40_Witness ==
    /\ bo_fn = "function"
    /\ max_retries = -1
    /\ bo_pc = "returned_none"
    /\ invocations = 0
    /\ sleep_count = 0

====
